---- MODULE Spec2Model ----
(***************************************************************************)
(* Model of the reconciliation engine of analyze_copilot_data.py:          *)
(* surface normalisation, version eligibility, telemetry ingestion,        *)
(* tolerance matching, discrepancy classification and the engagement       *)
(* bucket aggregation.                                                     *)
(*                                                                         *)
(* Strings.  A slash-delimited surface string is the sequence of its       *)
(* segments (str.split('/')), and a segment is the record                  *)
(*     [nums |-> <<n1, ..., nk>>, tail |-> t]                              *)
(* standing for the text  n1.n2. ... .nk  followed by t, where t is empty  *)
(* or starts with a character that is neither a digit nor a dot followed   *)
(* by a digit.  "1.5.57-243" is [nums |-> <<1,5,57>>, tail |-> "-243"],    *)
(* "copilot-chat" is [nums |-> <<>>, tail |-> "copilot-chat"], the empty   *)
(* string is [nums |-> <<>>, tail |-> ""].  The empty Python string ''     *)
(* splits into one empty segment; None is the empty sequence.              *)
(*                                                                         *)
(* Timestamps.  A timestamp string is [d |-> day, s |-> second of the day, *)
(* f |-> form]: form "Z" is YYYY-MM-DDTHH:MM:SSZ, "frac" carries a         *)
(* fractional part (.fffZ), "off" carries a UTC offset instead of Z (its   *)
(* first ten characters are a date, the whole is not in the format the     *)
(* matcher parses), "bad" is text that is no date at all, "none" is the    *)
(* literal None and "empty" the empty string.  Days are numbered within    *)
(* one month, so the order of the YYYY-MM-DD strings is the order of the   *)
(* day numbers.                                                            *)
(***************************************************************************)
EXTENDS Integers, Sequences, FiniteSets, TLC

VARIABLES
    \* ---- surface classifier / normaliser harness
    surface_str,      \* the raw surface string under test
    supported,        \* result of is_version_supported(surface_str)
    normalized,       \* normalize_surface_to_json_format(surface_str)
    renormalized,     \* normalize_surface_to_json_format(normalized)
    version_supported,\* analyze_versions: is_supported(surface_str)
    spc,              \* position of the harness
    \* ---- tolerance matcher harness
    report_ts,        \* the report timestamp given to find_closest_timestamp
    json_order,       \* the user's timestamp set, in the order the scan visits it
    tolerance,        \* tolerance_hours
    scan_i,           \* number of timestamps the scan has visited
    closest_ts,       \* closest_ts so far (None or <<ts>>)
    min_diff,         \* min_diff so far (None or <<seconds>>)
    match,            \* the returned triple
    mpc,              \* position of the harness
    \* ---- the run of main
    pc,               \* position of main
    telemetry,        \* the lines of the telemetry files read so far
    rows,             \* parse_json_files: rows
    user_timestamps,  \* parse_json_files: user_timestamps (login -> timestamps, timestamp_to_ide)
    user_interactions,\* parse_json_files: user_interactions (login -> total)
    report_start,     \* parse_json_files: report_start (None or <<day>>)
    report_end,       \* parse_json_files: report_end (None or <<day>>)
    report_time,      \* the ledger's Report Time column
    effective_end,    \* main: effective_end (None or <<day>>)
    ledger,           \* the ledger rows find_discrepancies has read so far
    stats,            \* find_discrepancies: stats
    all_discrepancies,\* find_discrepancies: all_discrepancies
    patterns,         \* analyze_patterns: patterns
    summary,          \* write_summary: the rates written
    \* ---- single-day comparison (analyze_copilot_data_v2)
    vpc,              \* position of the comparison
    comparison_date,  \* the day compared
    lines_read,       \* number of telemetry lines read
    json_users,       \* user_login -> record of the comparison date
    csv_rows,         \* the activity report rows read so far
    v2_stats,         \* stats of the comparison
    discrepancies,    \* the 'Missing from JSON' records
    v2_summary        \* the figures written to the summary

surfVars == <<surface_str, supported, normalized, renormalized, version_supported, spc>>
matchVars == <<report_ts, json_order, tolerance, scan_i, closest_ts, min_diff, match, mpc>>
indexVars == <<rows, user_timestamps, user_interactions, report_start, report_end>>
mainVars == <<pc, telemetry, indexVars, report_time, effective_end, ledger, stats,
              all_discrepancies, patterns, summary>>
v2Vars == <<vpc, comparison_date, lines_read, json_users, csv_rows, v2_stats,
            discrepancies, v2_summary>>

None == <<>>
NoReason == "None"

Seg(n, t) == [nums |-> n, tail |-> t]
Name(t) == Seg(<<>>, t)
Ver(n) == Seg(n, "")
EmptySeg == Name("")
EmptyStr == <<EmptySeg>>

Min(a, b) == IF a <= b THEN a ELSE b
Max(a, b) == IF a >= b THEN a ELSE b

\* str.lower() on the names the model uses (digits and dots are unchanged)
LowerName(t) ==
    CASE t = "VSCode" -> "vscode"
      [] t = "JetBrains-IU" -> "jetbrains-iu"
      [] t = "JetBrains-PY" -> "jetbrains-py"
      [] t = "Eclipse IDE" -> "eclipse ide"
      [] t = "Neovim" -> "neovim"
      [] t = "Unknown" -> "unknown"
      [] t = "GitHubCopilotChat" -> "githubcopilotchat"
      [] t = "GitHubCopilot" -> "githubcopilot"
      [] OTHER -> t

lower(seg) == Seg(seg.nums, LowerName(seg.tail))

\* SURFACE_TO_JSON_IDE.get(surface, surface)
SURFACE_TO_JSON_IDE(t) ==
    CASE t \in {"vscode", "vscode-chat"} -> "vscode"
      [] t \in {"jetbrains-iu", "jetbrains-ic", "jetbrains-py", "jetbrains-pc",
                "jetbrains-cl", "jetbrains-go", "jetbrains-rm", "jetbrains-ws",
                "jetbrains-rd", "jetbrains-ps", "jetbrains-db", "jetbrains-jbc",
                "jetbrains-ai", "jetbrains-equivalent-eclipse ide",
                "jetbrains-equivalent-ibm developer for z",
                "eclipse ide", "eclipse", "ibm developer for z"} -> "intellij"
      [] t \in {"visualstudio", "vs"} -> "visualstudio"
      [] OTHER -> t

\* VSCODE_VERSION_PATTERN = ^0\.\d{1,2}\.\d+$
VSCODE_VERSION_PATTERN(seg) ==
    /\ seg.tail = ""
    /\ Len(seg.nums) = 3
    /\ seg.nums[1] = 0
    /\ seg.nums[2] <= 99

\* MIN_VERSIONS
MIN_VERSIONS ==
    [vscode       |-> [ide |-> <<1, 101>>,     extension |-> <<0, 28, 0>>],
     visualstudio |-> [ide |-> <<17, 14, 13>>, extension |-> <<18, 0, 471>>],
     jetbrains    |-> [ide_build |-> 242,      extension |-> <<1, 5, 52>>],
     eclipse      |-> [ide |-> <<4, 31>>,      extension |-> <<0, 9, 3>>],
     xcode        |-> [ide |-> <<13, 2, 1>>,   extension |-> <<0, 40, 0>>]]

\* parse_version: the leading one to three numeric components, None if none
parse_version(seg) ==
    IF Len(seg.nums) = 0 THEN None
    ELSE SubSeq(seg.nums, 1, Min(3, Len(seg.nums)))

\* a variant of the tuple order that is not strict
RECURSIVE TupleLeq(_, _)
TupleLeq(a, b) ==
    IF Len(a) = 0 THEN TRUE
    ELSE IF Len(b) = 0 THEN FALSE
    ELSE IF a[1] # b[1] THEN a[1] < b[1]
    ELSE TupleLeq(Tail(a), Tail(b))

\* Python's tuple order
RECURSIVE TupleLess(_, _)
TupleLess(a, b) ==
    IF Len(b) = 0 THEN FALSE
    ELSE IF Len(a) = 0 THEN TRUE
    ELSE IF a[1] # b[1] THEN a[1] < b[1]
    ELSE TupleLess(Tail(a), Tail(b))

Zeros(n) == [i \in 1..Max(n, 0) |-> 0]

\* version + (0,) * (len(floor) - len(version)), then [:len(floor)]
PadTo(version, floor) ==
    SubSeq(version \o Zeros(Len(floor) - Len(version)), 1, Len(floor))

\* str.startswith('jetbrains-') on the names the model uses
StartsWithJetbrains(t) ==
    t \in {"jetbrains-iu", "jetbrains-ic", "jetbrains-py", "jetbrains-pc",
           "jetbrains-cl", "jetbrains-go", "jetbrains-rm", "jetbrains-ws",
           "jetbrains-rd", "jetbrains-ps", "jetbrains-db", "jetbrains-jbc",
           "jetbrains-ai", "jetbrains-equivalent-eclipse ide",
           "jetbrains-equivalent-ibm developer for z"}

Verdict(ok, reason) == [ok |-> ok, reason |-> reason]

\* is_version_supported, the family dispatch: the key of MIN_VERSIONS the
\* surface is judged against, "none" for the final else branch
ide_type(ide_name) ==
    IF ide_name.nums # <<>> THEN "none"
    ELSE IF ide_name.tail \in {"vscode", "vscode-chat"} THEN "vscode"
    ELSE IF StartsWithJetbrains(ide_name.tail)
            \/ ide_name.tail \in {"eclipse ide", "eclipse"} THEN "jetbrains"
    ELSE IF ide_name.tail \in {"visualstudio", "vs"} THEN "visualstudio"
    ELSE IF ide_name.tail = "xcode" THEN "xcode"
    ELSE "none"

\* a variant of the IDE version check that rejects nothing
IdeCheckNever(type, ide_version) == FALSE

\* a variant of the IDE version check that reads the last component of a
\* build number instead of the first
IdeCheckLastComponent(type, ide_version) ==
    IF type = "jetbrains"
    THEN ide_version[Len(ide_version)] < MIN_VERSIONS[type].ide_build
    ELSE TupleLess(PadTo(ide_version, MIN_VERSIONS[type].ide), MIN_VERSIONS[type].ide)

\* is_version_supported, the IDE version check: TRUE when the check rejects
IdeCheckRejects(type, ide_version) ==
    IF type = "jetbrains"
    THEN ide_version[1] < MIN_VERSIONS[type].ide_build
    ELSE TupleLess(PadTo(ide_version, MIN_VERSIONS[type].ide), MIN_VERSIONS[type].ide)

\* is_version_supported, the extension version check: TRUE when it rejects
ExtCheckRejects(type, ext_version_str) ==
    /\ ext_version_str # EmptySeg
    /\ parse_version(ext_version_str) # None
    /\ TupleLess(PadTo(parse_version(ext_version_str), MIN_VERSIONS[type].extension),
                 MIN_VERSIONS[type].extension)

is_version_supported(s) ==
    IF s = None \/ s = EmptyStr THEN Verdict(FALSE, "No surface info")
    ELSE IF Len(s) < 2 THEN Verdict(FALSE, "Invalid surface format")
    ELSE LET type == ide_type(lower(s[1]))
             ide_version_str == s[2]
             ext_version_str == IF Len(s) > 3 THEN s[4] ELSE EmptySeg
             ide_version == parse_version(ide_version_str)
         IN  IF type = "none" THEN Verdict(TRUE, NoReason)
             ELSE IF ide_version = None
                  THEN Verdict(FALSE, "Cannot parse IDE version")
             ELSE IF IdeCheckRejects(type, ide_version)
                  THEN Verdict(FALSE, IF type = "jetbrains"
                                      THEN "IDE build < minimum build"
                                      ELSE "IDE version < minimum")
             ELSE IF ExtCheckRejects(type, ext_version_str)
                  THEN Verdict(FALSE, "Extension version < minimum")
             ELSE Verdict(TRUE, NoReason)

(***************************************************************************)
(* analyze_versions.py: its own table of minimum versions and its own      *)
(* check; its parse_version is that of the main script.                    *)
(***************************************************************************)
analyze_versions_MIN_VERSIONS ==
    [vscode       |-> [ide |-> <<1, 101>>,     extension |-> <<0, 28, 0>>],
     visualstudio |-> [ide |-> <<17, 14, 13>>, extension |-> <<18, 0, 471>>],
     jetbrains    |-> [ide |-> <<2024, 2, 6>>, extension |-> <<1, 5, 52>>],
     eclipse      |-> [ide |-> <<4, 31>>,      extension |-> <<0, 9, 3>>],
     xcode        |-> [ide |-> <<13, 2, 1>>,   extension |-> <<0, 40, 0>>]]

\* version + (0,) * (len(floor) - len(version)), cut to len(floor), < floor
PaddedBelow(version, floor) == TupleLess(PadTo(version, floor), floor)

\* analyze_versions.is_supported
is_supported(s) ==
    IF s = None \/ s = EmptyStr THEN FALSE
    ELSE IF Len(s) < 2 THEN FALSE
    ELSE LET type == ide_type(lower(s[1]))
             ext_version_str == IF Len(s) > 3 THEN s[4] ELSE EmptySeg
             ide_version == parse_version(s[2])
             ext_version == parse_version(ext_version_str)
         IN  IF type = "none" THEN TRUE
             ELSE LET min_ver == analyze_versions_MIN_VERSIONS[type]
                  IN  IF ide_version = None THEN FALSE
                      ELSE IF PaddedBelow(ide_version, min_ver.ide) THEN FALSE
                      ELSE IF /\ ext_version_str # EmptySeg
                              /\ ext_version # None
                              /\ PaddedBelow(ext_version, min_ver.extension)
                           THEN FALSE
                      ELSE TRUE

\* the intermediate identifiers normalize_surface_to_json_format drops
IsIntermediateId(seg) ==
    seg.nums = <<>> /\ LowerName(seg.tail) \in {"githubcopilotchat", "githubcopilot"}

RECURSIVE KeepParts(_)
KeepParts(parts) ==
    IF parts = <<>> THEN <<>>
    ELSE IF IsIntermediateId(parts[1]) THEN KeepParts(Tail(parts))
    ELSE <<parts[1]>> \o KeepParts(Tail(parts))

\* the canonical family: parts[0].lower(), overridden by a 0.NN.N segment,
\* mapped through SURFACE_TO_JSON_IDE
json_ide(parts) ==
    LET first == lower(parts[1])
        surface == IF \E i \in 2..Len(parts) : VSCODE_VERSION_PATTERN(parts[i])
                   THEN Name("vscode") ELSE first
    IN  IF surface.nums = <<>> THEN Name(SURFACE_TO_JSON_IDE(surface.tail))
        ELSE surface

normalize_surface_to_json_format(last_surface) ==
    IF last_surface = None \/ last_surface = EmptyStr THEN None
    ELSE <<json_ide(last_surface)>> \o KeepParts(Tail(last_surface))


(***************************************************************************)
(* Timestamps                                                              *)
(***************************************************************************)
SecondsPerDay == 86400
SecondsPerHour == 3600

Stamp(d, sec, f) == [d |-> d, s |-> sec, f |-> f]
At(d, h, m, sec) == Stamp(d, (h * 60 + m) * 60 + sec, "Z")
EmptyTs == Stamp(0, 0, "empty")
NoneTs == Stamp(0, 0, "none")
BadTs == Stamp(0, 0, "bad")

Some(x) == <<x>>
Abs(x) == IF x < 0 THEN -x ELSE x

\* normalize_timestamp: None for a missing value, the fractional part cut
normalize_timestamp(ts) ==
    IF ts = None \/ ts = EmptyTs THEN None
    ELSE IF ts.f = "frac" THEN Some(Stamp(ts.d, ts.s, "Z"))
    ELSE Some(ts)

\* datetime.strptime(ts.rstrip('Z'), '%Y-%m-%dT%H:%M:%S') succeeds
ParsesAsDatetime(ts) == ts.f = "Z"

\* the parsed datetime, in seconds
Seconds(ts) == ts.d * SecondsPerDay + ts.s

Triple(c, w, d) == [closest_ts |-> c, within_tolerance |-> w, time_diff |-> d]

\* a variant of the scan step that keeps the sign of the difference
ScanStepSigned(report, json_ts, closest, mind) ==
    IF ~ParsesAsDatetime(json_ts) THEN <<closest, mind>>
    ELSE LET diff == Seconds(json_ts) - Seconds(report)
         IN  IF mind = None \/ diff < mind[1]
             THEN <<Some(json_ts), Some(diff)>>
             ELSE <<closest, mind>>

\* a variant of the scan that keeps the timestamp visited last
ScanStepLast(report, json_ts, closest, mind) ==
    IF ~ParsesAsDatetime(json_ts) THEN <<closest, mind>>
    ELSE <<Some(json_ts), Some(Abs(Seconds(json_ts) - Seconds(report)))>>

\* one iteration of the scan of find_closest_timestamp: the pair
\* <<closest_ts, min_diff>> after json_ts has been visited
ScanStep(report, json_ts, closest, mind) ==
    IF ~ParsesAsDatetime(json_ts) THEN <<closest, mind>>
    ELSE LET diff == Abs(Seconds(json_ts) - Seconds(report))
         IN  IF mind = None \/ diff < mind[1]
             THEN <<Some(json_ts), Some(diff)>>
             ELSE <<closest, mind>>

RECURSIVE ScanAll(_, _, _, _)
ScanAll(report, order, closest, mind) ==
    IF order = <<>> THEN <<closest, mind>>
    ELSE LET r == ScanStep(report, order[1], closest, mind)
         IN  ScanAll(report, Tail(order), r[1], r[2])

\* a variant of the comparison that leaves the boundary out
WithinToleranceStrict(diff, hours) == diff < hours * SecondsPerHour

\* the comparison min_diff <= tolerance_hours * 3600
WithinTolerance(diff, hours) == diff <= hours * SecondsPerHour

\* what find_closest_timestamp returns once the scan has ended
MatchResult(closest, mind, hours) ==
    IF closest = None THEN Triple(None, FALSE, None)
    ELSE Triple(closest, WithinTolerance(mind[1], hours), mind)

\* find_closest_timestamp(report_ts, json_timestamps, tolerance_hours); report
\* is None or <<ts>>, order lists the set in the order its iteration yields
find_closest_timestamp(report, order, hours) ==
    IF report = None \/ report = Some(EmptyTs) \/ order = <<>>
    THEN Triple(None, FALSE, None)
    ELSE IF ~ParsesAsDatetime(report[1]) THEN Triple(None, FALSE, None)
    ELSE LET r == ScanAll(report[1], order, None, None)
         IN  MatchResult(r[1], r[2], hours)

(***************************************************************************)
(* Dictionaries: a dict is a function on its set of keys                   *)
(***************************************************************************)
EmptyDict == <<>>
Get(f, k, default) == IF k \in DOMAIN f THEN f[k] ELSE default
Put(f, k, v) == [x \in DOMAIN f \cup {k} |-> IF x = k THEN v ELSE f[x]]
\* a variant of the increment that stores the amount instead of adding it
IncAssign(f, k, n) == Put(f, k, n)

Inc(f, k, n) == Put(f, k, Get(f, k, 0) + n)

(***************************************************************************)
(* parse_json_files                                                        *)
(*                                                                         *)
(* A line of a telemetry file is the sequence of the JSON texts the split  *)
(* on "}{" yields.  A JSON text is Malformed (json.loads raises) or a      *)
(* record [report_start_day, report_end_day, day, user_login,              *)
(* interaction_count, totals_by_ide]; a missing field holds the default    *)
(* record.get gives it (None for the day strings, "" for the login, 0,     *)
(* <<>>).  An entry of totals_by_ide is [ide, ide_version, sampled_at,     *)
(* plugin, plugin_version, plugin_sampled_at].                             *)
(***************************************************************************)
Malformed == [kind |-> "malformed"]

Record(rs, re, day, login, count, ides) ==
    [kind |-> "record", report_start_day |-> rs, report_end_day |-> re, day |-> day,
     user_login |-> login, interaction_count |-> count, totals_by_ide |-> ides]

IdeInfo(ide, ide_version, sampled_at, plugin, plugin_version, plugin_sampled_at) ==
    [ide |-> ide, ide_version |-> ide_version, sampled_at |-> sampled_at,
     plugin |-> plugin, plugin_version |-> plugin_version,
     plugin_sampled_at |-> plugin_sampled_at]

Index(r, ut, ui, rs, re) ==
    [rows |-> r, user_timestamps |-> ut, user_interactions |-> ui,
     report_start |-> rs, report_end |-> re]

EmptyIndex == Index(<<>>, EmptyDict, EmptyDict, None, None)

\* the IDE string built from an entry of totals_by_ide
ide_str(info) ==
    <<Name(LowerName(info.ide))>>
    \o (IF info.ide_version # EmptySeg THEN <<info.ide_version>> ELSE <<>>)
    \o (IF info.plugin # EmptySeg THEN <<info.plugin>> ELSE <<>>)
    \o (IF info.plugin_version # EmptySeg THEN <<info.plugin_version>> ELSE <<>>)

\* the timestamp recorded for an entry: plugin sampled_at if available,
\* otherwise the IDE's, normalised
EntryTimestamp(info) ==
    normalize_timestamp(IF info.plugin_sampled_at # EmptyTs
                        THEN info.plugin_sampled_at ELSE info.sampled_at)

NoUserData == [timestamps |-> {}, timestamp_to_ide |-> EmptyDict]

\* user_timestamps after one entry of totals_by_ide
TrackTimestamp(ut, login, info) ==
    IF login # "" /\ info.ide # "" /\ EntryTimestamp(info) # None
    THEN LET ts == EntryTimestamp(info)[1]
             old == Get(ut, login, NoUserData)
         IN  Put(ut, login, [timestamps |-> old.timestamps \cup {ts},
                             timestamp_to_ide |-> Put(old.timestamp_to_ide, ts, ide_str(info))])
    ELSE ut

DistilledRow(rec, ide, ide_version, plugin, plugin_version) ==
    [report_start_day |-> rec.report_start_day, report_end_day |-> rec.report_end_day,
     day |-> rec.day, user_login |-> rec.user_login, ide |-> ide,
     ide_version |-> ide_version, plugin |-> plugin, plugin_version |-> plugin_version]

\* the loop over totals_by_ide
RECURSIVE IngestIdes(_, _, _)
IngestIdes(ix, rec, ides) ==
    IF ides = <<>> THEN ix
    ELSE LET info == ides[1]
         IN  IngestIdes(
                 [ix EXCEPT
                    !.user_timestamps = TrackTimestamp(@, rec.user_login, info),
                    !.rows = Append(@, DistilledRow(rec, info.ide, info.ide_version,
                                                    info.plugin, info.plugin_version))],
                 rec, Tail(ides))

\* the body of the try block for one JSON text
IngestRecord(ix, rec) ==
    LET counted == IF rec.user_login # "" /\ rec.interaction_count # 0
                   THEN Inc(ix.user_interactions, rec.user_login, rec.interaction_count)
                   ELSE ix.user_interactions
        window  == ix.report_start = None /\ rec.report_start_day # None
        ix1 == [ix EXCEPT !.user_interactions = counted,
                          !.report_start = IF window THEN rec.report_start_day ELSE @,
                          !.report_end = IF window THEN rec.report_end_day ELSE @]
    IN  IF rec.totals_by_ide # <<>>
        THEN IngestIdes(ix1, rec, rec.totals_by_ide)
        ELSE [ix1 EXCEPT !.rows = Append(@, DistilledRow(rec, "", EmptySeg, EmptySeg, EmptySeg))]

\* a variant in which a text json.loads rejects ends ingestion with nothing
IngestJsonAbort(ix, text) ==
    IF text.kind = "malformed" THEN EmptyIndex ELSE IngestRecord(ix, text)

\* one JSON text: a text json.loads rejects is skipped
IngestJson(ix, text) ==
    IF text.kind = "malformed" THEN ix ELSE IngestRecord(ix, text)

\* one line: its JSON texts in order
RECURSIVE IngestLine(_, _)
IngestLine(ix, line) ==
    IF line = <<>> THEN ix ELSE IngestLine(IngestJson(ix, line[1]), Tail(line))

\* parse_json_files on a sequence of lines
RECURSIVE parse_json_files(_)
parse_json_files(lines) ==
    IF lines = <<>> THEN EmptyIndex
    ELSE IngestLine(parse_json_files(SubSeq(lines, 1, Len(lines) - 1)), lines[Len(lines)])

(***************************************************************************)
(* find_discrepancies                                                      *)
(*                                                                         *)
(* A ledger row is [Login, LastActivityAt, LastSurfaceUsed]; the Report    *)
(* Time column holds the same value on every row.                          *)
(***************************************************************************)
LedgerRow(login, at, surface) ==
    [Login |-> login, LastActivityAt |-> at, LastSurfaceUsed |-> surface]

\* datetime.strptime(last_activity_at[:10], '%Y-%m-%d') succeeds
ParsesAsDate(ts) == ts.f \in {"Z", "frac", "off"}

\* 'copilot' in name, on the names the model uses
ContainsCopilot(t) ==
    t \in {"githubcopilotchat", "githubcopilot", "copilot-chat", "copilot-intellij",
           "copilot.vim"}

\* the surface type of a row: the first segment as written, 'vscode' for
\* "unknown/<...copilot...>", 'unknown' for an empty surface
SurfaceType(last_surface) ==
    IF last_surface = EmptyStr THEN Name("unknown")
    ELSE IF /\ lower(last_surface[1]) = Name("unknown")
            /\ Len(last_surface) >= 2
            /\ ContainsCopilot(LowerName(last_surface[2].tail))
         THEN Name("vscode")
         ELSE last_surface[1]

\* the Neovim skip of find_discrepancies
IsExcludedFamily(surface) == lower(surface) = Name("neovim")

\* the extension name of the 'ext_name/ext_ver' key of a row
ExtName(last_surface) ==
    IF Len(last_surface) >= 4 THEN last_surface[3]
    ELSE IF lower(last_surface[2]) = Name("githubcopilotchat") THEN Name("copilot-chat")
    ELSE last_surface[2]

\* the extension version key of a row
ExtVersionKey(last_surface) ==
    IF last_surface = EmptyStr THEN <<Name("unknown")>>
    ELSE IF Len(last_surface) >= 4 THEN <<ExtName(last_surface), last_surface[4]>>
    ELSE IF Len(last_surface) >= 3 THEN <<ExtName(last_surface), last_surface[3]>>
    ELSE IF Len(last_surface) >= 2 THEN <<last_surface[1]>>
    ELSE <<Name("unknown")>>

\* the copilot-chat versions a row adds to all_copilot_chat_versions
ChatVersions(last_surface) ==
    IF last_surface = EmptyStr \/ Len(last_surface) < 3 THEN {}
    ELSE IF ExtName(last_surface) # Name("copilot-chat") THEN {}
    ELSE IF Len(last_surface) >= 4 THEN {last_surface[4]} ELSE {last_surface[3]}

\* the order of timestamp strings: dates in time order, other text after them
StampLeq(a, b) == b.f = "bad" \/ (a.f # "bad" /\ Seconds(a) <= Seconds(b))

\* max(json_timestamps)
MaxStamp(S) == CHOOSE t \in S : \A u \in S : StampLeq(u, t)

\* a set in the order its iteration yields
RECURSIVE IterationOrder(_)
IterationOrder(S) ==
    IF S = {} THEN <<>>
    ELSE LET x == CHOOSE y \in S : TRUE IN <<x>> \o IterationOrder(S \ {x})

InitStats ==
    [total_activity_users |-> 0,
     users_with_activity |-> 0,
     users_active_before_window |-> 0,
     users_active_in_window |-> 0,
     users_active_after_window |-> 0,
     users_unsupported_version |-> 0,
     missing_count |-> 0,
     timestamp_mismatch_count |-> 0,
     missing_surface_breakdown |-> EmptyDict,
     timestamp_mismatch_surface_breakdown |-> EmptyDict,
     missing_extension_breakdown |-> EmptyDict,
     timestamp_mismatch_extension_breakdown |-> EmptyDict,
     unsupported_version_breakdown |-> EmptyDict,
     all_copilot_chat_versions |-> {}]

Discrepancy(row, status, latest, generated) ==
    [Login |-> row.Login, Status |-> status, LastActivityAt |-> row.LastActivityAt,
     LatestExportActivity |-> latest, ReportSurface |-> row.LastSurfaceUsed,
     JsonIde |-> "", ReportGenerated |-> generated]

Found(st, ds) == [stats |-> st, all_discrepancies |-> ds]

\* a variant of distilled_users that keeps only the rows naming an IDE
DistilledUsersWithIde(rs) == {rs[i].user_login : i \in {j \in 1..Len(rs) : rs[j].ide # ""}}

\* distilled_users
DistilledUsers(rs) == {rs[i].user_login : i \in 1..Len(rs)}

\* the tolerance of the call in find_discrepancies
tolerance_hours == 24

\* a variant of the decision whose two checks are independent: the timestamp
\* check also runs for a login that is not in distilled_users
DisposeBoth(f, ix, row, generated) ==
    LET surface == SurfaceType(row.LastSurfaceUsed)
        ext_version == ExtVersionKey(row.LastSurfaceUsed)
        json_timestamps == Get(ix.user_timestamps, row.Login, NoUserData).timestamps
        m == find_closest_timestamp(normalize_timestamp(row.LastActivityAt),
                                    IterationOrder(json_timestamps), tolerance_hours)
        absent == row.Login \notin DistilledUsers(ix.rows)
        stale == ~m.within_tolerance
        with_absent == IF absent
                       THEN Append(f.all_discrepancies,
                                   Discrepancy(row, "Missing from JSON", None, generated))
                       ELSE f.all_discrepancies
        with_stale == IF stale
                      THEN Append(with_absent,
                                  Discrepancy(row, "Timestamp Mismatch",
                                              IF json_timestamps # {}
                                              THEN Some(MaxStamp(json_timestamps)) ELSE None,
                                              generated))
                      ELSE with_absent
    IN  Found([f.stats EXCEPT
                 !.all_copilot_chat_versions = @ \cup ChatVersions(row.LastSurfaceUsed),
                 !.missing_count = IF absent THEN @ + 1 ELSE @,
                 !.missing_surface_breakdown = IF absent THEN Inc(@, surface, 1) ELSE @,
                 !.missing_extension_breakdown = IF absent THEN Inc(@, ext_version, 1) ELSE @,
                 !.timestamp_mismatch_count = IF stale THEN @ + 1 ELSE @,
                 !.timestamp_mismatch_surface_breakdown =
                     IF stale THEN Inc(@, surface, 1) ELSE @,
                 !.timestamp_mismatch_extension_breakdown =
                     IF stale THEN Inc(@, ext_version, 1) ELSE @],
              with_stale)

\* an eligible in-window row: the Absent / Stale / Matched decision
Dispose(f, ix, row, generated) ==
    LET surface == SurfaceType(row.LastSurfaceUsed)
        ext_version == ExtVersionKey(row.LastSurfaceUsed)
        st == [f.stats EXCEPT !.all_copilot_chat_versions =
                                   @ \cup ChatVersions(row.LastSurfaceUsed)]
        normalized_report_ts == normalize_timestamp(row.LastActivityAt)
    IN  IF row.Login \notin DistilledUsers(ix.rows)
        THEN Found([st EXCEPT !.missing_count = @ + 1,
                              !.missing_surface_breakdown = Inc(@, surface, 1),
                              !.missing_extension_breakdown = Inc(@, ext_version, 1)],
                   Append(f.all_discrepancies,
                          Discrepancy(row, "Missing from JSON", None, generated)))
        ELSE IF row.Login \in DOMAIN ix.user_timestamps
        THEN LET json_timestamps == ix.user_timestamps[row.Login].timestamps
                 most_recent_json_ts == IF json_timestamps # {}
                                        THEN Some(MaxStamp(json_timestamps)) ELSE None
                 m == find_closest_timestamp(normalized_report_ts,
                                             IterationOrder(json_timestamps),
                                             tolerance_hours)
             IN  IF ~m.within_tolerance
                 THEN Found([st EXCEPT !.timestamp_mismatch_count = @ + 1,
                                       !.timestamp_mismatch_surface_breakdown = Inc(@, surface, 1),
                                       !.timestamp_mismatch_extension_breakdown =
                                            Inc(@, ext_version, 1)],
                            Append(f.all_discrepancies,
                                   Discrepancy(row, "Timestamp Mismatch",
                                               most_recent_json_ts, generated)))
                 ELSE Found(st, f.all_discrepancies)
        ELSE Found(st, f.all_discrepancies)

\* a variant of the in-window branch that asks the eligibility classifier
\* before the exclusion
InWindowEligibilityFirst(f, ix, row, generated) ==
    LET surface == SurfaceType(row.LastSurfaceUsed)
    IN  IF ~is_version_supported(row.LastSurfaceUsed).ok
        THEN Found([f.stats EXCEPT !.users_unsupported_version = @ + 1,
                                   !.unsupported_version_breakdown = Inc(@, surface, 1)],
                   f.all_discrepancies)
        ELSE IF IsExcludedFamily(surface) THEN f
        ELSE Dispose(f, ix, row, generated)

\* a row whose activity date is inside the window: the exclusion, the
\* eligibility gate, then the disposition
InWindow(f, ix, row, generated) ==
    LET surface == SurfaceType(row.LastSurfaceUsed)
    IN  IF IsExcludedFamily(surface) THEN f
        ELSE IF ~is_version_supported(row.LastSurfaceUsed).ok
        THEN Found([f.stats EXCEPT !.users_unsupported_version = @ + 1,
                                   !.unsupported_version_breakdown = Inc(@, surface, 1)],
                   f.all_discrepancies)
        ELSE Dispose(f, ix, row, generated)

\* a variant of the loop body without the after-window branch: a late row
\* is taken as inside the window
FindRowLateInWindow(f, ix, row, start, end, generated) ==
    LET at == row.LastActivityAt
        f1 == [f EXCEPT !.stats.total_activity_users = @ + 1]
    IN  IF at.f \in {"empty", "none"} THEN f1
        ELSE LET f2 == [f1 EXCEPT !.stats.users_with_activity = @ + 1]
             IN  IF ~ParsesAsDate(at) THEN f2
                 ELSE IF at.d < start
                      THEN [f2 EXCEPT !.stats.users_active_before_window = @ + 1]
                 ELSE InWindow([f2 EXCEPT !.stats.users_active_in_window = @ + 1],
                               ix, row, generated)

\* the body of the loop of find_discrepancies for one row; start and end are
\* the days report_start and report_end passed in
FindRow(f, ix, row, start, end, generated) ==
    LET at == row.LastActivityAt
        f1 == [f EXCEPT !.stats.total_activity_users = @ + 1]
    IN  IF at.f \in {"empty", "none"} THEN f1
        ELSE LET f2 == [f1 EXCEPT !.stats.users_with_activity = @ + 1]
             IN  IF ~ParsesAsDate(at) THEN f2
                 ELSE IF at.d < start
                      THEN [f2 EXCEPT !.stats.users_active_before_window = @ + 1]
                 ELSE IF at.d > end
                      THEN [f2 EXCEPT !.stats.users_active_after_window = @ + 1]
                 ELSE InWindow([f2 EXCEPT !.stats.users_active_in_window = @ + 1],
                               ix, row, generated)

\* find_discrepancies on a sequence of rows
RECURSIVE find_discrepancies(_, _, _, _, _)
find_discrepancies(ix, report_rows, start, end, generated) ==
    IF report_rows = <<>> THEN Found(InitStats, <<>>)
    ELSE FindRow(find_discrepancies(ix, SubSeq(report_rows, 1, Len(report_rows) - 1),
                                    start, end, generated),
                 ix, report_rows[Len(report_rows)], start, end, generated)

(***************************************************************************)
(* analyze_patterns.  A gap is kept in seconds (gap_days * 86400).         *)
(***************************************************************************)
Buckets == <<"0 (absent)", "1-5", "6-20", "21-50", "51-100", "101-500", "500+">>

get_activity_bucket(interactions) ==
    IF interactions = 0 THEN "0 (absent)"
    ELSE IF interactions <= 5 THEN "1-5"
    ELSE IF interactions <= 20 THEN "6-20"
    ELSE IF interactions <= 50 THEN "21-50"
    ELSE IF interactions <= 100 THEN "51-100"
    ELSE IF interactions <= 500 THEN "101-500"
    ELSE "500+"

dow_names == <<"Mon", "Tue", "Wed", "Thu", "Fri", "Sat", "Sun">>

\* datetime.weekday() of a day of the modelled month, whose first day is a Monday
Weekday(d) == ((d + 6) % 7) + 1

InitPatterns ==
    [by_date |-> EmptyDict,
     by_day_of_week |-> EmptyDict,
     by_hour |-> EmptyDict,
     by_activity_level |->
        [b \in {Buckets[i] : i \in 1..Len(Buckets)} |->
            [count |-> 0, gaps |-> <<>>, status |-> EmptyDict]],
     timestamp_gaps |-> [json_older |-> 0, json_newer |-> 0, gaps |-> <<>>],
     stale_user_interactions |-> <<>>,
     healthy_user_interactions |-> <<>>,
     activity_users_by_bucket |-> EmptyDict]

NoDateCounts == [Missing |-> 0, Timestamp |-> 0, IDE |-> 0]

\* 'Missing' in status / 'Timestamp' in status
StatusKind(status) ==
    IF status = "Missing from JSON" THEN "Missing"
    ELSE IF status = "Timestamp Mismatch" THEN "Timestamp" ELSE "IDE"

\* datetime.strptime(ts[:19], '%Y-%m-%dT%H:%M:%S') succeeds
ParsesFirst19(ts) == ts.f \in {"Z", "frac", "off"}

\* the timestamp gap a discrepancy contributes: None, or <<report - json>>
GapOf(d) ==
    IF /\ d.LatestExportActivity # None
       /\ d.Status = "Timestamp Mismatch"
       /\ ParsesFirst19(d.LastActivityAt)
       /\ ParsesFirst19(d.LatestExportActivity[1])
    THEN Some(Seconds(d.LastActivityAt) - Seconds(d.LatestExportActivity[1]))
    ELSE None

\* the body of the loop over the discrepancies
AnalyzeDiscrepancy(p, d, ui) ==
    LET at == d.LastActivityAt
        kind == StatusKind(d.Status)
        interactions == Get(ui, d.Login, 0)
        bucket == get_activity_bucket(interactions)
        gap == GapOf(d)
        dated == [p EXCEPT
            !.by_date = Put(@, at.d, [Get(@, at.d, NoDateCounts) EXCEPT ![kind] = @ + 1]),
            !.by_day_of_week = Inc(@, dow_names[Weekday(at.d)], 1),
            !.by_hour = Inc(@, at.s \div SecondsPerHour, 1)]
        levelled == [dated EXCEPT
            !.by_activity_level[bucket].count = @ + 1,
            !.by_activity_level[bucket].status = Inc(@, d.Status, 1),
            !.stale_user_interactions =
                IF kind = "Timestamp" THEN Append(@, interactions) ELSE @]
    IN  IF gap = None THEN levelled
        ELSE [levelled EXCEPT
                !.timestamp_gaps.gaps = Append(@, gap[1]),
                !.timestamp_gaps.json_older = IF gap[1] > 0 THEN @ + 1 ELSE @,
                !.timestamp_gaps.json_newer = IF gap[1] > 0 THEN @ ELSE @ + 1,
                !.by_activity_level[bucket].gaps = Append(@, Abs(gap[1]))]

RECURSIVE AnalyzeDiscrepancies(_, _, _)
AnalyzeDiscrepancies(p, ds, ui) ==
    IF ds = <<>> THEN p
    ELSE AnalyzeDiscrepancies(AnalyzeDiscrepancy(p, ds[1], ui), Tail(ds), ui)

\* surface.lower().startswith('neovim'), on the names the model uses
StartsWithNeovim(last_surface) ==
    last_surface[1].nums = <<>> /\ LowerName(last_surface[1].tail) \in {"neovim", "neovim-qt"}

\* activity_date >= report_start and activity_date <= report_end, on the
\* strings: text that is no date (BadTs, such as "n/a") sorts after every date
InWindowAsStrings(at, start, end) ==
    ParsesAsDate(at) /\ at.d >= start /\ at.d <= end

\* the body of the loop over the ledger that counts the users of each bucket
CountLedgerRow(p, row, ui, discrepancy_users, start, end) ==
    IF row.LastSurfaceUsed # EmptyStr /\ StartsWithNeovim(row.LastSurfaceUsed) THEN p
    ELSE IF row.LastActivityAt.f \in {"empty", "none"} THEN p
    ELSE IF ~InWindowAsStrings(row.LastActivityAt, start, end) THEN p
    ELSE LET interactions == Get(ui, row.Login, 0)
         IN  [p EXCEPT
                !.activity_users_by_bucket = Inc(@, get_activity_bucket(interactions), 1),
                !.healthy_user_interactions =
                    IF row.Login \notin discrepancy_users /\ interactions > 0
                    THEN Append(@, interactions) ELSE @]

RECURSIVE CountLedger(_, _, _, _, _, _)
CountLedger(p, report_rows, ui, discrepancy_users, start, end) ==
    IF report_rows = <<>> THEN p
    ELSE CountLedger(CountLedgerRow(p, report_rows[1], ui, discrepancy_users, start, end),
                     Tail(report_rows), ui, discrepancy_users, start, end)

analyze_patterns(ds, ui, report_rows, start, end) ==
    CountLedger(AnalyzeDiscrepancies(InitPatterns, ds, ui), report_rows, ui,
                {ds[i].Login : i \in 1..Len(ds)}, start, end)

(***************************************************************************)
(* write_summary: a percentage written to the summary is kept as the pair  *)
(* <<numerator, denominator>>; a percentage that is not written is absent. *)
(***************************************************************************)
Rate(n, d) == <<n, d>>

\* the bucket lines of "Discrepancy Rate by Interaction Count"
BucketRates(p) ==
    [b \in {Buckets[i] : i \in 1..Len(Buckets)} \cap
           {c \in DOMAIN p.activity_users_by_bucket : p.activity_users_by_bucket[c] > 0} |->
        Rate(p.by_activity_level[b].count, p.activity_users_by_bucket[b])]

\* all copilot-chat extension versions, newest first
COPILOT_CHAT_VERSIONS ==
    <<Ver(<<0, 35, 1>>), Ver(<<0, 35, 0>>),
      Ver(<<0, 33, 5>>), Ver(<<0, 33, 4>>), Ver(<<0, 33, 3>>), Ver(<<0, 33, 2>>),
      Ver(<<0, 33, 1>>), Ver(<<0, 33, 0>>),
      Ver(<<0, 32, 5>>), Ver(<<0, 32, 4>>), Ver(<<0, 32, 3>>), Ver(<<0, 32, 2>>),
      Ver(<<0, 32, 1>>), Ver(<<0, 32, 0>>),
      Ver(<<0, 31, 5>>), Ver(<<0, 31, 4>>), Ver(<<0, 31, 3>>), Ver(<<0, 31, 2>>),
      Ver(<<0, 31, 1>>), Ver(<<0, 31, 0>>),
      Ver(<<0, 30, 3>>), Ver(<<0, 30, 2>>), Ver(<<0, 30, 1>>), Ver(<<0, 30, 0>>),
      Ver(<<0, 29, 1>>), Ver(<<0, 29, 0>>),
      Ver(<<0, 28, 5>>), Ver(<<0, 28, 4>>), Ver(<<0, 28, 3>>), Ver(<<0, 28, 2>>),
      Ver(<<0, 28, 1>>), Ver(<<0, 28, 0>>)>>

\* the key 'copilot-chat/<version>' of an extension breakdown
ChatKey(ver) == <<Name("copilot-chat"), ver>>

\* the discrepancy counts of the keys that start with 'copilot-chat/'
discrepancy_counts(extension_breakdown) ==
    [ver \in {k[2] : k \in {x \in DOMAIN extension_breakdown :
                                Len(x) = 2 /\ x[1] = Name("copilot-chat")}} |->
        extension_breakdown[ChatKey(ver)]]

\* the loop over a list of versions that builds the result
RECURSIVE BreakdownOf(_, _, _)
BreakdownOf(versions, counts, all_versions_in_report) ==
    IF versions = <<>> THEN <<>>
    ELSE (IF versions[1] \in all_versions_in_report
          THEN <<[ext |-> ChatKey(versions[1]), count |-> Get(counts, versions[1], 0)]>>
          ELSE <<>>)
         \o BreakdownOf(Tail(versions), counts, all_versions_in_report)

\* a variant that lists every maintained version, seen in the report or not
format_every_version(extension_breakdown, all_versions_in_report) ==
    IF all_versions_in_report = {} THEN <<>>
    ELSE BreakdownOf(COPILOT_CHAT_VERSIONS, discrepancy_counts(extension_breakdown),
                     {COPILOT_CHAT_VERSIONS[i] : i \in 1..Len(COPILOT_CHAT_VERSIONS)})

format_copilot_chat_breakdown(extension_breakdown, all_versions_in_report) ==
    IF all_versions_in_report = {} THEN <<>>
    ELSE BreakdownOf(COPILOT_CHAT_VERSIONS, discrepancy_counts(extension_breakdown),
                     all_versions_in_report)

write_summary(st, p) ==
    LET total_discrepancies == st.missing_count + st.timestamp_mismatch_count
        supported_in_window == st.users_active_in_window - st.users_unsupported_version
        population ==
            [active |-> Rate(st.users_with_activity, st.total_activity_users),
             before |-> Rate(st.users_active_before_window, st.users_with_activity),
             within |-> Rate(st.users_active_in_window, st.users_with_activity),
             after  |-> Rate(st.users_active_after_window, st.users_with_activity)]
        affected == [affected |-> Rate(total_discrepancies, st.users_with_activity)]
        missing == IF supported_in_window > 0
                   THEN [events_missing |-> Rate(total_discrepancies, supported_in_window),
                         absent |-> Rate(st.missing_count, supported_in_window),
                         stale |-> Rate(st.timestamp_mismatch_count, supported_in_window)]
                   ELSE EmptyDict
    IN  [population |-> population,
         discrepancy |-> affected @@ missing,
         absent_events |-> format_copilot_chat_breakdown(
                               st.missing_extension_breakdown, st.all_copilot_chat_versions),
         stale_events |-> format_copilot_chat_breakdown(
                              st.timestamp_mismatch_extension_breakdown,
                              st.all_copilot_chat_versions),
         buckets |-> BucketRates(p)]

(***************************************************************************)
(* main: the telemetry files are read line by line, the window is fixed,   *)
(* the ledger is classified row by row, then analyze_patterns and          *)
(* write_summary run.                                                      *)
(***************************************************************************)
JSON_EXPORT_DELAY_HOURS == 96
HoursPerDay == 24

MaxLines == 2
MaxRows == 2

\* the declared report window of the telemetry export
WindowStart == Some(10)
WindowEnd == Some(20)

\* telemetry sampling times
StampA == At(12, 10, 0, 0)
StampB == At(13, 10, 0, 0)

CopilotChat == Name("copilot-chat")

VsCodeEntry(sampled_at, plugin_sampled_at) ==
    IdeInfo("VSCode", Ver(<<1, 101, 0>>), sampled_at, CopilotChat, Ver(<<0, 28, 0>>),
            plugin_sampled_at)

\* the JSON texts of the telemetry files: the first user's records carry
\* every kind of entry, the second user's a timestamp or none
JsonTexts ==
    {Record(WindowStart, WindowEnd, 12, "u1", 3, <<VsCodeEntry(StampA, EmptyTs)>>),
     Record(WindowStart, WindowEnd, 13, "u1", 0,
            <<VsCodeEntry(StampA, Stamp(StampB.d, StampB.s, "frac"))>>),
     Record(None, None, 12, "u1", 0, <<VsCodeEntry(BadTs, EmptyTs)>>),
     Record(WindowStart, WindowEnd, 12, "u2", 3, <<VsCodeEntry(StampA, EmptyTs)>>),
     Record(WindowStart, None, 12, "u2", 600,
            <<IdeInfo("", EmptySeg, StampA, EmptySeg, EmptySeg, EmptyTs)>>),
     Malformed}

Lines ==
    {<<t>> : t \in JsonTexts}
    \cup {<<Malformed, Record(WindowStart, WindowEnd, 13, "u2", 3, <<>>)>>}

\* the ledger names one user a row
LedgerLogins == <<"u1", "u2", "u3", "u4">>

EligibleSurface == <<Name("vscode"), Ver(<<1, 101, 0>>), CopilotChat, Ver(<<0, 28, 0>>)>>

LedgerSurfaces ==
    {EligibleSurface,
     <<Name("vscode"), Ver(<<1, 100, 3>>), CopilotChat, Ver(<<0, 35, 1>>)>>,
     <<Name("VSCode"), Ver(<<1, 102>>), CopilotChat, Ver(<<0, 27, 9>>)>>,
     <<Name("Neovim"), Ver(<<0, 9, 5>>), Name("copilot.vim"), Ver(<<1, 2, 3>>)>>,
     <<Name("neovim-qt"), Ver(<<0, 9>>)>>,
     <<Name("Neovim")>>,
     <<Name("unknown"), Name("GitHubCopilotChat"), Ver(<<0, 35, 1>>)>>,
     <<Name("JetBrains-IU"), Ver(<<252, 1>>), Name("copilot-intellij"), Seg(<<1, 5, 57>>, "-243")>>,
     <<Name("JetBrains-PY"), Ver(<<241, 9>>), Name("copilot-intellij"), Seg(<<1, 5, 57>>, "-243")>>,
     <<Name("eclipse"), Ver(<<4, 31>>), Name("copilot-eclipse"), Ver(<<0, 9, 3>>)>>,
     <<Name("emacs"), Ver(<<29, 1>>)>>,
     EmptyStr}

ExampleActivity == At(13, 11, 35, 21)

LedgerTimes ==
    {NoneTs, BadTs, At(9, 12, 0, 0), At(11, 9, 0, 0), ExampleActivity, Stamp(14, 36000, "frac"),
     At(14, 10, 0, 1), Stamp(13, 41721, "off"), At(16, 9, 0, 0), At(21, 9, 0, 0)}

\* the rows a ledger is made of.  The first user's: every activity time with
\* the eligible surface, every surface with the example activity time, and a
\* late row on an unsupported version;
\* the second user's rows are a few of these, a later user's the eligible one
LedgerRowsOf(login) ==
    IF login = LedgerLogins[1]
    THEN {LedgerRow(login, t, EligibleSurface) : t \in LedgerTimes}
         \cup {LedgerRow(login, ExampleActivity, sf) : sf \in LedgerSurfaces}
         \cup {LedgerRow(login, At(16, 9, 0, 0),
                         <<Name("vscode"), Ver(<<1, 100, 3>>), CopilotChat, Ver(<<0, 35, 1>>)>>)}
    ELSE IF login = LedgerLogins[2]
    THEN {LedgerRow(login, ExampleActivity, EligibleSurface),
          LedgerRow(login, ExampleActivity,
                    <<Name("vscode"), Ver(<<1, 100, 3>>), CopilotChat, Ver(<<0, 35, 1>>)>>)}
    ELSE {LedgerRow(login, ExampleActivity, EligibleSurface)}

ReportTimes == {At(17, 20, 15, 5), At(30, 20, 15, 5)}

CurrentIndex == Index(rows, user_timestamps, user_interactions, report_start, report_end)

NoSummary ==
    [population |-> EmptyDict, discrepancy |-> EmptyDict, absent_events |-> <<>>,
     stale_events |-> <<>>, buckets |-> EmptyDict]

MainIdle ==
    /\ pc = "idle"
    /\ telemetry = <<>>
    /\ rows = <<>>
    /\ user_timestamps = EmptyDict
    /\ user_interactions = EmptyDict
    /\ report_start = None
    /\ report_end = None
    /\ report_time = EmptyTs
    /\ effective_end = None
    /\ ledger = <<>>
    /\ stats = InitStats
    /\ all_discrepancies = <<>>
    /\ patterns = InitPatterns
    /\ summary = NoSummary

InitMain ==
    /\ pc = "ingest"
    /\ telemetry = <<>>
    /\ rows = <<>>
    /\ user_timestamps = EmptyDict
    /\ user_interactions = EmptyDict
    /\ report_start = None
    /\ report_end = None
    /\ report_time \in ReportTimes
    /\ effective_end = None
    /\ ledger = <<>>
    /\ stats = InitStats
    /\ all_discrepancies = <<>>
    /\ patterns = InitPatterns
    /\ summary = NoSummary

\* a variant in which a file may still be read while the ledger is classified
ReadLineAnytime ==
    /\ pc \in {"ingest", "classify"}
    /\ Len(telemetry) < MaxLines
    /\ \E line \in Lines :
         LET ix == IngestLine(CurrentIndex, line)
         IN  /\ telemetry' = Append(telemetry, line)
             /\ rows' = ix.rows
             /\ user_timestamps' = ix.user_timestamps
             /\ user_interactions' = ix.user_interactions
             /\ report_start' = ix.report_start
             /\ report_end' = ix.report_end
    /\ UNCHANGED <<pc, report_time, effective_end, ledger, stats, all_discrepancies,
                   patterns, summary>>
    /\ UNCHANGED <<surfVars, matchVars, v2Vars>>

\* parse_json_files reads one more line
ReadLine ==
    /\ pc = "ingest"
    /\ Len(telemetry) < MaxLines
    /\ \E line \in Lines :
         LET ix == IngestLine(CurrentIndex, line)
         IN  /\ telemetry' = Append(telemetry, line)
             /\ rows' = ix.rows
             /\ user_timestamps' = ix.user_timestamps
             /\ user_interactions' = ix.user_interactions
             /\ report_start' = ix.report_start
             /\ report_end' = ix.report_end
    /\ UNCHANGED <<pc, report_time, effective_end, ledger, stats, all_discrepancies,
                   patterns, summary>>
    /\ UNCHANGED <<surfVars, matchVars, v2Vars>>

\* main: "No data extracted from JSON files"
HaltNoRows ==
    /\ pc = "ingest"
    /\ rows = <<>>
    /\ pc' = "error"
    /\ UNCHANGED <<telemetry, indexVars, report_time, effective_end, ledger, stats,
                   all_discrepancies, patterns, summary>>
    /\ UNCHANGED <<surfVars, matchVars, v2Vars>>

\* main: "Could not determine report window from JSON data"
HaltNoWindow ==
    /\ pc = "ingest"
    /\ rows # <<>>
    /\ report_start = None \/ report_end = None
    /\ pc' = "error"
    /\ UNCHANGED <<telemetry, indexVars, report_time, effective_end, ledger, stats,
                   all_discrepancies, patterns, summary>>
    /\ UNCHANGED <<surfVars, matchVars, v2Vars>>

\* a variant of cutoff_date without the export delay
cutoff_without_delay == report_time.d

\* cutoff_date: the date of the Report Time less the export delay
cutoff_date == report_time.d - JSON_EXPORT_DELAY_HOURS \div HoursPerDay

\* main: effective_end = min(report_end, cutoff_date)
FixWindow ==
    /\ pc = "ingest"
    /\ rows # <<>>
    /\ report_start # None /\ report_end # None
    /\ effective_end' = Some(Min(report_end[1], cutoff_date))
    /\ pc' = "classify"
    /\ UNCHANGED <<telemetry, indexVars, report_time, ledger, stats, all_discrepancies,
                   patterns, summary>>
    /\ UNCHANGED <<surfVars, matchVars, v2Vars>>

\* find_discrepancies reads one more row of the ledger
ClassifyRow ==
    /\ pc = "classify"
    /\ Len(ledger) < MaxRows
    /\ \E row \in LedgerRowsOf(LedgerLogins[Len(ledger) + 1]) :
         LET f == FindRow(Found(stats, all_discrepancies), CurrentIndex, row,
                          report_start[1], effective_end[1], report_time)
         IN  /\ ledger' = Append(ledger, row)
             /\ stats' = f.stats
             /\ all_discrepancies' = f.all_discrepancies
    /\ UNCHANGED <<pc, telemetry, indexVars, report_time, effective_end, patterns, summary>>
    /\ UNCHANGED <<surfVars, matchVars, v2Vars>>

\* main: step 3, once find_discrepancies has returned
AnalyzePatterns ==
    /\ pc = "classify"
    /\ patterns' = analyze_patterns(all_discrepancies, user_interactions, ledger,
                                    report_start[1], effective_end[1])
    /\ pc' = "summary"
    /\ UNCHANGED <<telemetry, indexVars, report_time, effective_end, ledger, stats,
                   all_discrepancies, summary>>
    /\ UNCHANGED <<surfVars, matchVars, v2Vars>>

\* main: step 4
WriteSummary ==
    /\ pc = "summary"
    /\ summary' = write_summary(stats, patterns)
    /\ pc' = "done"
    /\ UNCHANGED <<telemetry, indexVars, report_time, effective_end, ledger, stats,
                   all_discrepancies, patterns>>
    /\ UNCHANGED <<surfVars, matchVars, v2Vars>>

Next ==
    \/ ReadLine
    \/ HaltNoRows
    \/ HaltNoWindow
    \/ FixWindow
    \/ ClassifyRow
    \/ AnalyzePatterns
    \/ WriteSummary

(***************************************************************************)
(* Harness for the two pure surface functions: a raw surface string is     *)
(* drawn, classified, normalised, and its normal form normalised again.    *)
(***************************************************************************)
FirstSegments ==
    {Name(t) : t \in {"vscode", "VSCode", "vscode-chat", "JetBrains-IU", "jetbrains-py",
                      "eclipse", "Eclipse IDE", "visualstudio", "vs", "xcode",
                      "neovim", "Neovim", "neovim-qt", "unknown", "emacs", ""}}

IdeVersionSegments ==
    {EmptySeg, Ver(<<1, 101>>), Ver(<<1, 100, 3>>), Ver(<<1>>), Seg(<<1, 102>>, "-insider"),
     Ver(<<242, 1>>), Ver(<<241, 9>>), Ver(<<4, 31>>), Ver(<<17, 14, 13>>),
     Ver(<<13, 2, 1>>), Ver(<<0, 35, 1>>), Name("abc"), Name("GitHubCopilotChat")}

ExtNameSegments ==
    {EmptySeg, Name("copilot-chat"), Name("copilot-intellij"), Name("GitHubCopilot"),
     Ver(<<0, 33, 3>>)}

ExtVersionSegments ==
    {EmptySeg, Ver(<<0, 28, 0>>), Ver(<<0, 27, 9>>), Ver(<<0, 100, 1>>),
     Seg(<<1, 5, 57>>, "-243"), Seg(<<1, 5, 51>>, "-243"), Ver(<<18, 0, 471, 29466>>),
     Ver(<<0, 9, 3>>), Ver(<<0, 40, 0>>), Name("abc")}

Surfaces ==
    {<<a>> : a \in FirstSegments}
    \cup {<<a, b>> : a \in FirstSegments, b \in IdeVersionSegments}
    \cup {<<a, b, c>> : a \in FirstSegments, b \in IdeVersionSegments, c \in ExtNameSegments}
    \cup {<<a, b, c, d>> : a \in FirstSegments, b \in IdeVersionSegments,
                           c \in ExtNameSegments, d \in ExtVersionSegments}

Pending == Verdict(FALSE, "pending")

SurfaceIdle ==
    /\ surface_str = None
    /\ supported = Pending
    /\ normalized = None
    /\ renormalized = None
    /\ version_supported = FALSE
    /\ spc = "idle"

InitSurfaceHarness ==
    /\ surface_str \in Surfaces
    /\ supported = Pending
    /\ normalized = None
    /\ renormalized = None
    /\ version_supported = FALSE
    /\ spc = "start"

ClassifySurface ==
    /\ spc = "start"
    /\ supported' = is_version_supported(surface_str)
    /\ spc' = "classified"
    /\ UNCHANGED <<surface_str, normalized, renormalized, version_supported>>
    /\ UNCHANGED <<matchVars, mainVars, v2Vars>>

NormalizeSurface ==
    /\ spc = "classified"
    /\ normalized' = normalize_surface_to_json_format(surface_str)
    /\ spc' = "normalized"
    /\ UNCHANGED <<surface_str, supported, renormalized, version_supported>>
    /\ UNCHANGED <<matchVars, mainVars, v2Vars>>

RenormalizeSurface ==
    /\ spc = "normalized"
    /\ renormalized' = normalize_surface_to_json_format(normalized)
    /\ spc' = "renormalized"
    /\ UNCHANGED <<surface_str, supported, normalized, version_supported>>
    /\ UNCHANGED <<matchVars, mainVars, v2Vars>>

\* analyze_versions filters the same surface
AnalyzeVersions ==
    /\ spc = "renormalized"
    /\ version_supported' = is_supported(surface_str)
    /\ spc' = "versioned"
    /\ UNCHANGED <<surface_str, supported, normalized, renormalized>>
    /\ UNCHANGED <<matchVars, mainVars, v2Vars>>

NextSurface == ClassifySurface \/ NormalizeSurface \/ RenormalizeSurface \/ AnalyzeVersions

(***************************************************************************)
(* Harness for find_closest_timestamp: the scan visits the user's          *)
(* timestamp set in the order json_order, one timestamp a step.            *)
(***************************************************************************)
MaxStamps == 2

ReportBase == At(13, 11, 35, 21)

\* a timestamp at a signed distance from ReportBase
Shifted(delta) ==
    LET t == Seconds(ReportBase) + delta
    IN  Stamp(t \div SecondsPerDay, t % SecondsPerDay, "Z")

JsonStamps ==
    {At(12, 10, 0, 0), At(13, 10, 0, 0), BadTs}
    \cup {Shifted(x) : x \in {-86401, -86400, -7200, 0, 7200, 86400, 86401}}

ReportStamps == {Some(ReportBase), Some(Stamp(13, 41721, "off")), Some(BadTs), None}

IsOrder(q) == \A i, j \in 1..Len(q) : i # j => q[i] # q[j]

Orders(S, n) == UNION {{q \in [1..k -> S] : IsOrder(q)} : k \in 0..n}

MatchIdle ==
    /\ report_ts = None
    /\ json_order = <<>>
    /\ tolerance = 0
    /\ scan_i = 0
    /\ closest_ts = None
    /\ min_diff = None
    /\ match = Triple(None, FALSE, None)
    /\ mpc = "idle"

InitMatchHarness ==
    /\ report_ts \in ReportStamps
    /\ json_order \in Orders(JsonStamps, MaxStamps)
    /\ tolerance \in {1, 24}
    /\ scan_i = 0
    /\ closest_ts = None
    /\ min_diff = None
    /\ match = Triple(None, FALSE, None)
    /\ mpc = "start"

\* the early return, and the ValueError of the report timestamp's strptime
MatchReject ==
    /\ mpc = "start"
    /\ \/ report_ts = None
       \/ json_order = <<>>
       \/ (report_ts # None /\ ~ParsesAsDatetime(report_ts[1]))
    /\ match' = Triple(None, FALSE, None)
    /\ mpc' = "done"
    /\ UNCHANGED <<report_ts, json_order, tolerance, scan_i, closest_ts, min_diff>>
    /\ UNCHANGED <<surfVars, mainVars, v2Vars>>

MatchBegin ==
    /\ mpc = "start"
    /\ report_ts # None /\ json_order # <<>> /\ ParsesAsDatetime(report_ts[1])
    /\ mpc' = "scan"
    /\ UNCHANGED <<report_ts, json_order, tolerance, scan_i, closest_ts, min_diff, match>>
    /\ UNCHANGED <<surfVars, mainVars, v2Vars>>

MatchScan ==
    /\ mpc = "scan"
    /\ scan_i < Len(json_order)
    /\ LET r == ScanStep(report_ts[1], json_order[scan_i + 1], closest_ts, min_diff)
       IN  closest_ts' = r[1] /\ min_diff' = r[2]
    /\ scan_i' = scan_i + 1
    /\ UNCHANGED <<report_ts, json_order, tolerance, match, mpc>>
    /\ UNCHANGED <<surfVars, mainVars, v2Vars>>

MatchReturn ==
    /\ mpc = "scan"
    /\ scan_i = Len(json_order)
    /\ match' = MatchResult(closest_ts, min_diff, tolerance)
    /\ mpc' = "done"
    /\ UNCHANGED <<report_ts, json_order, tolerance, scan_i, closest_ts, min_diff>>
    /\ UNCHANGED <<surfVars, mainVars, v2Vars>>

NextMatch == MatchReject \/ MatchBegin \/ MatchScan \/ MatchReturn

(***************************************************************************)
(* analyze_copilot_data_v2.py: the single-day comparison                   *)
(***************************************************************************)

\* NON_IDE_SURFACES
NON_IDE_SURFACES ==
    {"copilot-chat", "copilot-chat-platform", "copilot-cli", "copilot_pr_review",
     "copilot-pr-reviews", "copilot-developer", "copilot-mobile-ios",
     "copilot-mobile-android", "github_spark", "github.com", "none", "/unknown", ""}

\* IDE_CATEGORIES.get(surface_name, 'Other')
IDE_CATEGORIES(surface_name) ==
    IF surface_name.nums # <<>> THEN "Other"
    ELSE CASE surface_name.tail \in {"vscode", "unknown"} -> "VS Code"
           [] surface_name.tail \in {"intellij", "jetbrains-iu", "jetbrains-py",
                                     "jetbrains-pc", "jetbrains-ws", "jetbrains-go",
                                     "jetbrains-rm", "jetbrains-cl", "jetbrains-rd",
                                     "jetbrains-jbc", "jetbrains-ai", "jetbrains-ic"}
                -> "JetBrains"
           [] surface_name.tail = "visualstudio" -> "Visual Studio"
           [] surface_name.tail = "zed" -> "Zed"
           [] surface_name.tail = "vim" -> "Vim"
           [] surface_name.tail = "neovim" -> "Neovim"
           [] OTHER -> "Other"

\* str.strip() on the names the model uses
StripName(t) ==
    CASE t = "copilot-cli " -> "copilot-cli"
      [] OTHER -> t

\* is_ide_surface: a first segment outside NON_IDE_SURFACES followed by a
\* non-empty second segment
is_ide_surface(s) ==
    IF s = None \/ s = EmptyStr THEN FALSE
    ELSE LET base_surface == Seg(s[1].nums, StripName(LowerName(s[1].tail)))
         IN  IF base_surface.nums = <<>> /\ base_surface.tail \in NON_IDE_SURFACES
             THEN FALSE
             ELSE IF Len(s) >= 2 /\ s[2] # EmptySeg THEN TRUE
             ELSE IF /\ base_surface = Name("unknown")
                     /\ Len(s) >= 2
                     /\ ContainsCopilot(LowerName(s[2].tail))
             THEN TRUE
             ELSE FALSE

\* the blank line of a telemetry file
Blank == [kind |-> "blank"]

\* json_users after one more line of a telemetry file
IndexUser(users, line, day) ==
    IF line = Blank \/ line = Malformed THEN users
    ELSE IF line.day = day /\ line.user_login # "" THEN Put(users, line.user_login, line)
    ELSE users

\* stats, as main initialises it before the comparison
V2InitStats ==
    [total_csv_users |-> 0,
     users_active_on_date |-> 0,
     users_in_json |-> 0,
     users_missing_from_json |-> 0,
     users_non_ide |-> 0,
     users_unsupported_version |-> 0,
     missing_by_ide |-> EmptyDict,
     missing_by_extension |-> EmptyDict,
     total_by_ide |-> EmptyDict,
     total_by_extension |-> EmptyDict]

\* the comparison's running result
Tallies(st, found) == [stats |-> st, discrepancies |-> found]

\* last_activity_at[:10] == comparison_date, for a value that is present
ActiveOn(last_activity_at, day) ==
    /\ last_activity_at.f \notin {"empty", "none"}
    /\ last_activity_at.f \in {"Z", "frac", "off"}
    /\ last_activity_at.d = day

\* surface_name: the first segment in lower case, 'vscode' for
\* "unknown/<...copilot...>"
V2SurfaceName(last_surface) ==
    IF /\ lower(last_surface[1]) = Name("unknown")
       /\ Len(last_surface) >= 2
       /\ ContainsCopilot(LowerName(last_surface[2].tail))
    THEN Name("vscode")
    ELSE lower(last_surface[1])

\* ext_version: 'ext_name/ext_ver', or 'unknown'
V2ExtVersion(last_surface) ==
    IF Len(last_surface) >= 4 THEN <<last_surface[3], last_surface[4]>>
    ELSE IF Len(last_surface) >= 3
    THEN <<IF lower(last_surface[2]) = Name("githubcopilotchat")
           THEN Name("copilot-chat") ELSE last_surface[2],
           last_surface[3]>>
    ELSE <<Name("unknown")>>

\* the 'Missing from JSON' record of a row
MissingFromJson(row) ==
    [Login |-> row.Login, LastActivityAt |-> row.LastActivityAt,
     LastSurfaceUsed |-> row.LastSurfaceUsed, Status |-> "Missing from JSON"]

\* the end of the loop body: the family and extension tallies, then the
\* lookup of the login in json_users
CheckJson(t, row, users) ==
    LET ide_category == IDE_CATEGORIES(V2SurfaceName(row.LastSurfaceUsed))
        ext_version == V2ExtVersion(row.LastSurfaceUsed)
        st == [t.stats EXCEPT !.total_by_ide = Inc(@, ide_category, 1),
                              !.total_by_extension = Inc(@, ext_version, 1)]
    IN  IF row.Login \in DOMAIN users
        THEN Tallies([st EXCEPT !.users_in_json = @ + 1], t.discrepancies)
        ELSE Tallies([st EXCEPT !.users_missing_from_json = @ + 1,
                                !.missing_by_ide = Inc(@, ide_category, 1),
                                !.missing_by_extension = Inc(@, ext_version, 1)],
                     Append(t.discrepancies, MissingFromJson(row)))

\* "Skip unsupported versions"
CheckVersion(t, row, users) ==
    IF ~is_version_supported(row.LastSurfaceUsed).ok
    THEN Tallies([t.stats EXCEPT !.users_unsupported_version = @ + 1], t.discrepancies)
    ELSE CheckJson(t, row, users)

\* a variant of the non-IDE skip that counts the row and goes on with it
CheckSurfaceFallThrough(t, row, users) ==
    IF ~is_ide_surface(row.LastSurfaceUsed)
    THEN CheckVersion(Tallies([t.stats EXCEPT !.users_non_ide = @ + 1], t.discrepancies),
                      row, users)
    ELSE CheckVersion(t, row, users)

\* "Skip non-IDE surfaces"
CheckSurface(t, row, users) ==
    IF ~is_ide_surface(row.LastSurfaceUsed)
    THEN Tallies([t.stats EXCEPT !.users_non_ide = @ + 1], t.discrepancies)
    ELSE CheckVersion(t, row, users)

\* one pass of the loop over the activity report
CompareRow(t, row, day, users) ==
    LET counted == Tallies([t.stats EXCEPT !.total_csv_users = @ + 1], t.discrepancies)
    IN  IF ~ActiveOn(row.LastActivityAt, day) THEN counted
        ELSE CheckSurface(Tallies([counted.stats EXCEPT !.users_active_on_date = @ + 1],
                                  counted.discrepancies),
                          row, users)

\* f"{missing_pct:.1f}", in tenths of a percent
TenthsOfPercent(part, whole) ==
    LET n == part * 1000
        q == n \div whole
        r == n % whole
    IN  IF 2 * r > whole \/ (2 * r = whole /\ q % 2 = 1) THEN q + 1 ELSE q

\* the figures of the summary: ide_users, and the missing rate when there
\* is an IDE user
V2Summary(st) ==
    LET ide_users == st.users_active_on_date - st.users_non_ide
                     - st.users_unsupported_version
    IN  [ide_users |-> ide_users,
         missing_pct |-> IF ide_users > 0
                         THEN Some(TenthsOfPercent(st.users_missing_from_json, ide_users))
                         ELSE None]

\* ---- inputs of the single-day comparison

\* the lines of the matching telemetry files
V2Lines ==
    {Record(WindowStart, WindowEnd, 13, "u1", 3, <<>>),
     Record(WindowStart, WindowEnd, 12, "u1", 3, <<>>),
     Record(WindowStart, WindowEnd, 13, "u2", 3, <<>>),
     Record(WindowStart, WindowEnd, 13, "", 3, <<>>),
     Malformed,
     Blank}

\* the rows of the activity report
V2Rows ==
    {LedgerRow("u1", ExampleActivity, EligibleSurface),
     LedgerRow("u2", Stamp(13, 41721, "off"),
               <<Name("JetBrains-IU"), Ver(<<252, 1>>), Name("copilot-intellij"),
                 Seg(<<1, 5, 57>>, "-243")>>),
     LedgerRow("u3", ExampleActivity,
               <<Name("unknown"), Name("GitHubCopilotChat"), Ver(<<0, 35, 1>>)>>),
     LedgerRow("u1", ExampleActivity,
               <<Name("vscode"), Ver(<<1, 100, 3>>), CopilotChat, Ver(<<0, 35, 1>>)>>),
     LedgerRow("u2", ExampleActivity, <<Name("copilot-chat")>>),
     LedgerRow("u2", ExampleActivity, <<Name("copilot-cli "), Ver(<<1, 0>>)>>),
     LedgerRow("u3", ExampleActivity, <<Name("Neovim")>>),
     LedgerRow("u3", ExampleActivity, <<Name("unknown"), EmptySeg>>),
     LedgerRow("u1", ExampleActivity, EmptyStr),
     LedgerRow("u1", At(12, 9, 0, 0), EligibleSurface),
     LedgerRow("u2", NoneTs, EligibleSurface),
     LedgerRow("u3", EmptyTs, EligibleSurface),
     LedgerRow("u2", BadTs, EligibleSurface)}

NoV2Summary == [ide_users |-> 0, missing_pct |-> None]

V2Idle ==
    /\ vpc = "idle"
    /\ comparison_date = 0
    /\ lines_read = 0
    /\ json_users = EmptyDict
    /\ csv_rows = <<>>
    /\ v2_stats = V2InitStats
    /\ discrepancies = <<>>
    /\ v2_summary = NoV2Summary

InitV2Harness ==
    /\ vpc = "parse"
    /\ comparison_date \in {12, 13}    \* the JSON end date main settles on
    /\ lines_read = 0
    /\ json_users = EmptyDict
    /\ csv_rows = <<>>
    /\ v2_stats = V2InitStats
    /\ discrepancies = <<>>
    /\ v2_summary = NoV2Summary

\* main reads one more line of the matching telemetry files
V2ReadLine ==
    /\ vpc = "parse"
    /\ lines_read < MaxLines
    /\ \E line \in V2Lines : json_users' = IndexUser(json_users, line, comparison_date)
    /\ lines_read' = lines_read + 1
    /\ UNCHANGED <<vpc, comparison_date, csv_rows, v2_stats, discrepancies, v2_summary>>
    /\ UNCHANGED <<surfVars, matchVars, mainVars>>

\* the telemetry is read; main sets up stats and opens the activity report
V2BeginCompare ==
    /\ vpc = "parse"
    /\ vpc' = "compare"
    /\ v2_stats' = V2InitStats
    /\ discrepancies' = <<>>
    /\ UNCHANGED <<comparison_date, lines_read, json_users, csv_rows, v2_summary>>
    /\ UNCHANGED <<surfVars, matchVars, mainVars>>

\* main compares one more row of the activity report
V2CompareRow ==
    /\ vpc = "compare"
    /\ Len(csv_rows) < MaxRows
    /\ \E row \in V2Rows :
         LET t == CompareRow(Tallies(v2_stats, discrepancies), row, comparison_date,
                             json_users)
         IN  /\ csv_rows' = Append(csv_rows, row)
             /\ v2_stats' = t.stats
             /\ discrepancies' = t.discrepancies
    /\ UNCHANGED <<vpc, comparison_date, lines_read, json_users, v2_summary>>
    /\ UNCHANGED <<surfVars, matchVars, mainVars>>

\* the activity report is read; main writes the summary
V2WriteSummary ==
    /\ vpc = "compare"
    /\ vpc' = "done"
    /\ v2_summary' = V2Summary(v2_stats)
    /\ UNCHANGED <<comparison_date, lines_read, json_users, csv_rows, v2_stats,
                   discrepancies>>
    /\ UNCHANGED <<surfVars, matchVars, mainVars>>

NextV2 == V2ReadLine \/ V2BeginCompare \/ V2CompareRow \/ V2WriteSummary

vars == <<surfVars, matchVars, mainVars, v2Vars>>

InitSurface == InitSurfaceHarness /\ MatchIdle /\ MainIdle /\ V2Idle

SpecSurface == InitSurface /\ [][NextSurface]_vars

InitMatch == InitMatchHarness /\ SurfaceIdle /\ MainIdle /\ V2Idle

Init == InitMain /\ SurfaceIdle /\ MatchIdle /\ V2Idle

Spec == Init /\ [][Next]_vars

SpecMatch == InitMatch /\ [][NextMatch]_vars

InitV2 == InitV2Harness /\ SurfaceIdle /\ MatchIdle /\ MainIdle

SpecV2 == InitV2 /\ [][NextV2]_vars


(***************************************************************************)
(* Properties of find_closest_timestamp (SpecMatch)                        *)
(***************************************************************************)
ReportParses == report_ts # None /\ ParsesAsDatetime(report_ts[1])

\* the absolute differences between the report timestamp and the timestamps
\* of the set that parse
AbsDiffs == {Abs(Seconds(json_order[i]) - Seconds(report_ts[1])) :
                i \in {j \in 1..Len(json_order) : ParsesAsDatetime(json_order[j])}}

MinOf(S) == CHOOSE d \in S : \A e \in S : d <= e

\* the set reflected about the report timestamp: d seconds before becomes
\* d seconds after
Mirrored ==
    [i \in 1..Len(json_order) |->
        IF ParsesAsDatetime(json_order[i])
        THEN Shifted(Seconds(report_ts[1]) - Seconds(json_order[i]) + Seconds(report_ts[1])
                     - Seconds(ReportBase))
        ELSE json_order[i]]

\* C7: within_tolerance is true iff the least absolute difference between the
\* report timestamp and the timestamps of the set is at most
\* tolerance_hours * 3600 seconds, the boundary included (a timestamp that
\* does not parse has no difference); and the answer is the same for the set
\* reflected about the report timestamp
C7_WithinToleranceIffMinDiff ==
    mpc = "done" =>
        /\ match.within_tolerance =
               (ReportParses /\ AbsDiffs # {} /\ MinOf(AbsDiffs) <= tolerance * 3600)
        /\ ReportParses =>
               match.within_tolerance =
                   find_closest_timestamp(report_ts, Mirrored, tolerance).within_tolerance

\* C7 witness: two hours before and exactly 24 hours after, under a 24-hour
\* tolerance, the scan finished
C7_Witness ==
    /\ mpc = "done"
    /\ tolerance = 24
    /\ report_ts = Some(ReportBase)
    /\ json_order = <<Shifted(86400), Shifted(-7200)>>
    /\ match.within_tolerance
    /\ match.time_diff = Some(7200)

(***************************************************************************)
(* Properties of the two surface functions (SpecSurface)                   *)
(***************************************************************************)
\* C6: normalising a normalised surface changes nothing, for every raw
\* surface string
C6_NormalizeIdempotent ==
    spc = "renormalized" => renormalized = normalized

\* the first segments is_version_supported has a floor for
FloorFamilyNames ==
    {"vscode", "vscode-chat", "eclipse ide", "eclipse", "visualstudio", "vs", "xcode",
     "jetbrains-iu", "jetbrains-py"}

HasFloor(s) == s[1].nums = <<>> /\ LowerName(s[1].tail) \in FloorFamilyNames

\* C10: a surface that names a family without a floor is eligible, with no
\* reason, whatever its number of segments and whatever they contain
C10_UnknownFamilyEligible ==
    (spc # "start" /\ surface_str[1] # EmptySeg /\ ~HasFloor(surface_str))
        => supported = Verdict(TRUE, NoReason)

(***************************************************************************)
(* Properties of the run of main (Spec)                                    *)
(***************************************************************************)
Classifying == pc \in {"classify", "summary", "done"}

LedgerRowsRead == {ledger[i] : i \in 1..Len(ledger)}

\* the records emitted for a row (the ledger names a login once)
RecordsFor(row) ==
    {i \in 1..Len(all_discrepancies) : all_discrepancies[i].Login = row.Login}

AbsentFor(row) ==
    {i \in RecordsFor(row) : all_discrepancies[i].Status = "Missing from JSON"}

StaleFor(row) ==
    {i \in RecordsFor(row) : all_discrepancies[i].Status = "Timestamp Mismatch"}

\* the activity date lies inside the effective window
InEffectiveWindow(row) ==
    /\ row.LastActivityAt.f \in {"Z", "frac", "off"}
    /\ report_start[1] <= row.LastActivityAt.d
    /\ row.LastActivityAt.d <= effective_end[1]

\* the excluded client family, by the first segment in any letter case
ExcludedClient(row) ==
    /\ row.LastSurfaceUsed[1].nums = <<>>
    /\ LowerName(row.LastSurfaceUsed[1].tail) = "neovim"

\* in the window, not excluded, eligible by the classifier
Judged(row) ==
    /\ InEffectiveWindow(row)
    /\ ~ExcludedClient(row)
    /\ is_version_supported(row.LastSurfaceUsed).ok

\* the login appears in a record of an ingested file
InTelemetry(login) ==
    \E i \in 1..Len(telemetry) : \E j \in 1..Len(telemetry[i]) :
        telemetry[i][j].kind = "record" /\ telemetry[i][j].user_login = login

\* the telemetry timestamps of a user
TimestampsOf(login) ==
    IF login \in DOMAIN user_timestamps THEN user_timestamps[login].timestamps ELSE {}

\* some telemetry timestamp of the user is within 24 hours of the row's
\* timestamp; a timestamp that is not of the form YYYY-MM-DDTHH:MM:SS[.f][Z]
\* has no distance to any other
Near(row) ==
    /\ row.LastActivityAt.f \in {"Z", "frac"}
    /\ \E t \in TimestampsOf(row.Login) :
          /\ t.f = "Z"
          /\ Abs((t.d * 86400 + t.s) - (row.LastActivityAt.d * 86400 + row.LastActivityAt.s))
                <= 24 * 3600

\* C1: every in-window, non-excluded, eligible row ends as Absent (one
\* record), Stale (one record) or Matched (no record), and a row without a
\* record has a telemetry timestamp within the tolerance
C1_EveryJudgedRowClassified ==
    Classifying =>
        \A row \in LedgerRowsRead :
            Judged(row) =>
                /\ Cardinality(RecordsFor(row)) <= 1
                /\ RecordsFor(row) = {} => Near(row)

\* C2: an in-window, non-excluded, eligible row gets an Absent record iff its
\* login is in no telemetry record; then exactly one, and no Stale record
C2_AbsentIffNoTelemetryRecord ==
    Classifying =>
        \A row \in LedgerRowsRead :
            Judged(row) =>
                /\ Cardinality(AbsentFor(row)) = (IF InTelemetry(row.Login) THEN 0 ELSE 1)
                /\ ~InTelemetry(row.Login) => StaleFor(row) = {}

\* C2 witness: two judged rows, one of a login without telemetry that got its
\* Absent record, one of a login with telemetry that got none
C2_Witness ==
    /\ Classifying
    /\ \E r1, r2 \in LedgerRowsRead :
          /\ Judged(r1) /\ ~InTelemetry(r1.Login) /\ Cardinality(AbsentFor(r1)) = 1
          /\ Judged(r2) /\ InTelemetry(r2.Login) /\ AbsentFor(r2) = {}

FloorFamilyOf(s) ==
    LET n == LowerName(s[1].tail)
    IN  IF s[1].nums # <<>> THEN "none"
        ELSE IF n \in {"vscode", "vscode-chat"} THEN "vscode"
        ELSE IF n \in {"eclipse ide", "eclipse"} THEN "eclipse"
        ELSE IF n \in {"visualstudio", "vs"} THEN "visualstudio"
        ELSE IF n = "xcode" THEN "xcode"
        ELSE IF n \in {"jetbrains-iu", "jetbrains-py"} THEN "jetbrains"
        ELSE "none"

Pad3(v) == [i \in 1..3 |-> IF i <= Len(v) THEN v[i] ELSE 0]

Less3(a, b) ==
    \/ a[1] < b[1]
    \/ a[1] = b[1] /\ a[2] < b[2]
    \/ a[1] = b[1] /\ a[2] = b[2] /\ a[3] < b[3]

\* the IDE version or the extension version of the surface is below the
\* floor of its family
BelowFloor(s) ==
    LET family == FloorFamilyOf(s)
    IN  /\ Len(s) >= 2
        /\ family # "none"
        /\ s[2].nums # <<>>
        /\ \/ IF family = "jetbrains"
              THEN s[2].nums[1] < MIN_VERSIONS.jetbrains.ide_build
              ELSE Less3(Pad3(s[2].nums), Pad3(MIN_VERSIONS[family].ide))
           \/ /\ Len(s) >= 4
              /\ s[4].nums # <<>>
              /\ Less3(Pad3(s[4].nums), Pad3(MIN_VERSIONS[family].extension))

C5_OneRecordPerLogin ==
    \A i, j \in 1..Len(all_discrepancies) :
        i # j => all_discrepancies[i].Login # all_discrepancies[j].Login

\* C5 witness: an Absent record and a Stale record in one pass
C5_Witness ==
    /\ Classifying
    /\ Len(all_discrepancies) = 2
    /\ all_discrepancies[1].Status = "Timestamp Mismatch"
    /\ all_discrepancies[2].Status = "Missing from JSON"

\* C8: every engagement-bucket rate written has a positive denominator and a
\* count between 0 and the denominator
C8_BucketRateAtMostOne ==
    pc = "done" =>
        \A b \in DOMAIN summary.buckets :
            /\ summary.buckets[b][2] > 0
            /\ 0 <= summary.buckets[b][1]
            /\ summary.buckets[b][1] <= summary.buckets[b][2]

\* the in-window, non-excluded, eligible rows of the ledger
JudgedRows == {i \in 1..Len(ledger) : Judged(ledger[i])}

BucketOf(row) == get_activity_bucket(Get(user_interactions, row.Login, 0))

\* C9: the denominator of every discrepancy rate is the number of eligible
\* ledger entries of the same bucket: rows dropped as ineligible or as the
\* excluded family, and rows outside the window, are in no denominator
C9_RatesOverEligibleEntries ==
    pc = "done" =>
        /\ \A b \in DOMAIN summary.buckets :
              summary.buckets[b][2] =
                  Cardinality({i \in JudgedRows : BucketOf(ledger[i]) = b})
        /\ \A k \in DOMAIN summary.discrepancy :
              summary.discrepancy[k][2] = Cardinality(JudgedRows)

\* a version segment that is present and has no leading numeric component
Unparseable(seg) == seg # EmptySeg /\ seg.nums = <<>>

\* C11: for a surface of a family with a floor, an IDE version segment or an
\* extension version segment that is present but does not parse makes the
\* surface ineligible
C11_UnparseableVersionFailsClosed ==
    (/\ spc # "start"
     /\ HasFloor(surface_str)
     /\ \/ Len(surface_str) >= 2 /\ Unparseable(surface_str[2])
        \/ Len(surface_str) >= 4 /\ Unparseable(surface_str[4]))
        => ~supported.ok

\* the JSON text is a record that declares both ends of the report window
DeclaresWindow(text) ==
    /\ text.kind = "record"
    /\ text.report_start_day # None
    /\ text.report_end_day # None

SomeRecordDeclaresWindow ==
    \E i \in 1..Len(telemetry) : \E j \in 1..Len(telemetry[i]) :
        DeclaresWindow(telemetry[i][j])

\* C12: once ingestion is over, main halts with an error, no ledger row
\* classified and no record emitted, exactly when no ingested record declares
\* a report window; when some record declares both days the run proceeds,
\* whichever record comes first
C12_HaltsIffNoWindowDeclared ==
    /\ pc = "error" =>
          /\ ~SomeRecordDeclaresWindow
          /\ ledger = <<>>
          /\ all_discrepancies = <<>>
    /\ Classifying => SomeRecordDeclaresWindow

\* a line without the JSON texts json.loads rejects
RECURSIVE WellFormedTexts(_)
WellFormedTexts(line) ==
    IF line = <<>> THEN <<>>
    ELSE IF line[1].kind = "malformed" THEN WellFormedTexts(Tail(line))
    ELSE <<line[1]>> \o WellFormedTexts(Tail(line))

\* the lines read, each without its malformed texts, a line left empty dropped
RECURSIVE WellFormedLines(_)
WellFormedLines(lines) ==
    IF lines = <<>> THEN <<>>
    ELSE LET kept == WellFormedTexts(lines[1])
         IN  (IF kept = <<>> THEN <<>> ELSE <<kept>>) \o WellFormedLines(Tail(lines))

\* C13: the index built from the lines read (rows, timestamps, interaction
\* totals, report window) is the index built from the same lines with the
\* malformed JSON removed, so a malformed line never aborts ingestion
C13_MalformedLinesSkipped ==
    CurrentIndex = parse_json_files(WellFormedLines(telemetry))

\* C13 witness: a malformed line was read first, then a record that is in the
\* index
C13_Witness ==
    /\ Len(telemetry) = 2
    /\ telemetry[1] = <<Malformed>>
    /\ telemetry[2] # <<Malformed>>
    /\ Len(rows) = 1
    /\ "u1" \in DOMAIN user_timestamps

\* the rows read whose activity date parses and lies after the effective end
RowsAfterWindow ==
    {i \in 1..Len(ledger) :
        /\ ledger[i].LastActivityAt.f \in {"Z", "frac", "off"}
        /\ ledger[i].LastActivityAt.d > effective_end[1]}

\* the rows read that are in the window, not of the excluded family, and
\* that the classifier reports ineligible
RowsUnsupported ==
    {i \in 1..Len(ledger) :
        /\ InEffectiveWindow(ledger[i])
        /\ ~ExcludedClient(ledger[i])
        /\ ~is_version_supported(ledger[i].LastSurfaceUsed).ok}

\* C14: the effective end is the earlier of the declared end day and the day
\* 96 hours before the ledger generation date; a row dated after it gets no
\* record and no unsupported tally and is counted as active after the window;
\* a row dated on the effective end itself is counted inside the window
C14_EffectiveEndAndLateRows ==
    Classifying =>
        /\ effective_end[1] =
               (IF report_end[1] <= (report_time.d * 24 - 96) \div 24
                THEN report_end[1] ELSE (report_time.d * 24 - 96) \div 24)
        /\ \A i \in RowsAfterWindow : RecordsFor(ledger[i]) = {}
        /\ stats.users_active_after_window = Cardinality(RowsAfterWindow)
        /\ stats.users_unsupported_version = Cardinality(RowsUnsupported)
        /\ stats.users_active_in_window =
               Cardinality({i \in 1..Len(ledger) : InEffectiveWindow(ledger[i])})

\* C14 witness: the ledger was generated on day 17 and the effective end is
\* day 13; a row on an unsupported version dated day 16 has no record and no
\* tally, and a row dated day 13 of a login without telemetry is Absent
C14_Witness ==
    /\ Classifying
    /\ report_time.d = 17
    /\ report_end = Some(20)
    /\ effective_end = Some(13)
    /\ Len(ledger) = 2
    /\ ledger[1].LastActivityAt = At(16, 9, 0, 0)
    /\ ~is_version_supported(ledger[1].LastSurfaceUsed).ok
    /\ ledger[2].LastActivityAt.d = 13
    /\ stats.users_active_after_window = 1
    /\ stats.users_active_in_window = 1
    /\ stats.users_unsupported_version = 0
    /\ Len(all_discrepancies) = 1
    /\ all_discrepancies[1].Login = ledger[2].Login

\* the date of the row's activity timestamp parses
DateParses(row) == row.LastActivityAt.f \in {"Z", "frac", "off"}

RowsBeforeWindow ==
    {i \in 1..Len(ledger) :
        DateParses(ledger[i]) /\ ledger[i].LastActivityAt.d < report_start[1]}

RowsInWindow == {i \in 1..Len(ledger) : InEffectiveWindow(ledger[i])}

\* C15: every row read is counted in total_activity_users; a row whose
\* activity date parses is counted in exactly one of before, in and after
\* the window, in-window being the rows that enter the analysis; a row whose
\* activity timestamp does not parse is in none of the three and has no
\* record, and the rows after it are still processed
C15_WindowCountersPartitionRows ==
    Classifying =>
        /\ stats.total_activity_users = Len(ledger)
        /\ stats.users_active_before_window = Cardinality(RowsBeforeWindow)
        /\ stats.users_active_in_window = Cardinality(RowsInWindow)
        /\ stats.users_active_after_window = Cardinality(RowsAfterWindow)
        /\ stats.users_active_before_window + stats.users_active_in_window
             + stats.users_active_after_window
               = Cardinality({i \in 1..Len(ledger) : DateParses(ledger[i])})
        /\ \A i \in 1..Len(all_discrepancies) :
              \E k \in RowsInWindow : ledger[k].Login = all_discrepancies[i].Login
        /\ \A row \in LedgerRowsRead : ~DateParses(row) => RecordsFor(row) = {}

\* C15 witness: a row whose timestamp does not parse was read first, then an
\* in-window row that was counted and classified
C15_Witness ==
    /\ Classifying
    /\ Len(ledger) = 2
    /\ ledger[1].LastActivityAt = BadTs
    /\ InEffectiveWindow(ledger[2])
    /\ stats.total_activity_users = 2
    /\ stats.users_with_activity = 2
    /\ stats.users_active_in_window = 1
    /\ Len(all_discrepancies) = 1
    /\ all_discrepancies[1].Login = ledger[2].Login

RECURSIVE Reversed(_)
Reversed(seq) ==
    IF seq = <<>> THEN <<>> ELSE Append(Reversed(Tail(seq)), Head(seq))

\* what the classification uses of the result of parse_json_files
Ingested(ix) ==
    [timestamps |-> [u \in DOMAIN ix.user_timestamps |-> ix.user_timestamps[u].timestamps],
     user_interactions |-> ix.user_interactions,
     report_start |-> ix.report_start,
     report_end |-> ix.report_end]

\* C16: ingesting the telemetry files in another order, or with a file
\* twice, gives the same per-user timestamp sets, the same per-user
\* interaction totals and the same report window
C16_IngestionOrderAndDuplicateFree ==
    /\ Ingested(parse_json_files(Reversed(telemetry))) = Ingested(CurrentIndex)
    /\ Ingested(parse_json_files(telemetry \o telemetry)) = Ingested(CurrentIndex)

\* the part of C16 the code keeps: the per-user timestamp sets
C16_TimestampSetsOrderFree ==
    /\ Ingested(parse_json_files(Reversed(telemetry))).timestamps
         = Ingested(CurrentIndex).timestamps
    /\ Ingested(parse_json_files(telemetry \o telemetry)).timestamps
         = Ingested(CurrentIndex).timestamps

\* the copilot-chat versions the ledger rows read so far name: a segment
\* that follows a copilot-chat extension name
LedgerChatVersions ==
    {v \in UNION {{row.LastSurfaceUsed[k] : k \in 1..Len(row.LastSurfaceUsed)} :
                     row \in LedgerRowsRead} :
        \E row \in LedgerRowsRead :
            \E k \in 1..(Len(row.LastSurfaceUsed) - 1) :
                /\ lower(row.LastSurfaceUsed[k]) \in {Name("copilot-chat"),
                                                       Name("githubcopilotchat")}
                /\ row.LastSurfaceUsed[k + 1] = v}

\* the records of a status whose row has the copilot-chat version ver
RecordsOfVersion(status, ver) ==
    {i \in 1..Len(all_discrepancies) :
        /\ all_discrepancies[i].Status = status
        /\ ExtVersionKey(all_discrepancies[i].ReportSurface) = ChatKey(ver)}

PlaceInReleaseList(ver) ==
    CHOOSE i \in 1..Len(COPILOT_CHAT_VERSIONS) : COPILOT_CHAT_VERSIONS[i] = ver

BreakdownFaithful(section, status) ==
    /\ \A i \in 1..Len(section) :
          /\ section[i].ext[1] = Name("copilot-chat")
          /\ section[i].ext[2] \in LedgerChatVersions
          /\ section[i].count = Cardinality(RecordsOfVersion(status, section[i].ext[2]))
    /\ \A i, j \in 1..Len(section) :
          i < j => PlaceInReleaseList(section[i].ext[2]) < PlaceInReleaseList(section[j].ext[2])

\* C17: the copilot-chat breakdowns of the summary hold only versions a
\* ledger row names, in the order of the release list (newest first), each
\* with the number of records of that version (0 when there is none)
C17_BreakdownOnlyObservedVersions ==
    pc = "done" =>
        /\ BreakdownFaithful(summary.absent_events, "Missing from JSON")
        /\ BreakdownFaithful(summary.stale_events, "Timestamp Mismatch")

\* C17 witness: two versions were observed, the newer one with no Absent
\* record and the older one with one
C17_Witness ==
    /\ pc = "done"
    /\ Len(summary.absent_events) = 2
    /\ summary.absent_events[1] = [ext |-> ChatKey(Ver(<<0, 35, 1>>)), count |-> 0]
    /\ summary.absent_events[2] = [ext |-> ChatKey(Ver(<<0, 28, 0>>)), count |-> 1]
    /\ Len(all_discrepancies) = 1

\* C18: for a family with a floor, a surface without an IDE version segment
\* (none, or an empty one) is not rejected for it, and a surface without an
\* extension version segment is not rejected by the extension check: with
\* both absent the surface is eligible
C18_AbsentSegmentPasses ==
    (spc # "start" /\ surface_str # None /\ HasFloor(surface_str)) =>
        LET ide_absent == Len(surface_str) < 2 \/ surface_str[2] = EmptySeg
            ext_absent == Len(surface_str) < 4 \/ surface_str[4] = EmptySeg
        IN  /\ (ide_absent /\ ext_absent) => supported.ok
            /\ ide_absent => (supported.ok \/ supported.reason = "Extension version < minimum")
            /\ ext_absent => supported.reason # "Extension version < minimum"

\* the part of C18 about the extension version: with the IDE version at or
\* above the floor, a surface without an extension version is eligible
C18_AbsentExtensionPasses ==
    (/\ spc # "start" /\ surface_str # None /\ HasFloor(surface_str)
     /\ Len(surface_str) >= 2 /\ surface_str[2].nums # <<>>
     /\ ~IdeCheckRejects(ide_type(lower(surface_str[1])), parse_version(surface_str[2]))
     /\ (Len(surface_str) < 4 \/ surface_str[4] = EmptySeg))
        => supported = Verdict(TRUE, NoReason)

\* the reference comparison: the shorter sequence zero-padded to the longer
\* length, then the lexicographic order
ZeroPadded(v, n) == [i \in 1..n |-> IF i <= Len(v) THEN v[i] ELSE 0]

ReferenceLess(a, b) ==
    LET n == Max(Len(a), Len(b))
        pa == ZeroPadded(a, n)
        pb == ZeroPadded(b, n)
    IN  \E i \in 1..n : pa[i] < pb[i] /\ \A j \in 1..(i - 1) : pa[j] = pb[j]

\* the one to three leading numeric components of a version segment
Leading3(seg) == SubSeq(seg.nums, 1, IF Len(seg.nums) < 3 THEN Len(seg.nums) ELSE 3)

\* the surface with the non-numeric suffixes of its versions removed
WithoutSuffixes(s) ==
    [k \in 1..Len(s) |-> IF s[k].nums # <<>> THEN Ver(s[k].nums) ELSE s[k]]

StandardRegime(s) == ide_type(lower(s[1])) \in {"vscode", "visualstudio", "xcode"}

\* C19: in the standard regime a parsed version of one to three components
\* is rejected iff, zero-padded to a common length with the floor, it is
\* strictly less than the floor; this holds for the IDE version and, once
\* the IDE version passes, for the extension version; a non-numeric suffix
\* of a version does not change the verdict
C19_StandardComparisonIsZeroPadded ==
    (/\ spc # "start" /\ surface_str # None /\ Len(surface_str) >= 2
     /\ StandardRegime(surface_str) /\ surface_str[2].nums # <<>>) =>
        LET floor == MIN_VERSIONS[ide_type(lower(surface_str[1]))]
            ide_low == ReferenceLess(Leading3(surface_str[2]), floor.ide)
        IN  /\ supported.reason = "IDE version < minimum" <=> ide_low
            /\ (~ide_low /\ Len(surface_str) >= 4 /\ surface_str[4].nums # <<>>) =>
                  (supported.reason = "Extension version < minimum"
                     <=> ReferenceLess(Leading3(surface_str[4]), floor.extension))
            /\ is_version_supported(WithoutSuffixes(surface_str)) = supported

\* C19 witness: a one-component version, shorter than its floor, was padded
\* and rejected, on a surface that carries a suffixed extension version
C19_Witness ==
    /\ spc # "start"
    /\ surface_str = <<Name("vscode"), Ver(<<1>>), Name("copilot-chat"),
                       Seg(<<1, 5, 57>>, "-243")>>
    /\ supported = Verdict(FALSE, "IDE version < minimum")

\* the surface names a JetBrains IDE
JetBrainsSurface(s) == s[1].nums = <<>> /\ StartsWithJetbrains(lower(s[1]).tail)

\* the IDE check of a verdict passed
IdeCheckPassed(verdict) ==
    verdict.reason \notin {"IDE build < minimum build", "Cannot parse IDE version",
                           "Invalid surface format", "No surface info"}

\* trailing build digits put after a leading number
TrailingBuilds == {<<>>, <<1>>, <<0, 0>>, <<99999>>, <<21, 7>>}

\* C20: for a JetBrains surface the IDE check passes iff the leading number
\* of the IDE version is at least the minimum prefix, and every IDE version
\* with the same leading number gets the same result from the IDE check
C20_BuildRegimeLeadingComponentOnly ==
    (/\ spc # "start" /\ surface_str # None /\ Len(surface_str) >= 2
     /\ JetBrainsSurface(surface_str) /\ surface_str[2].nums # <<>>) =>
        LET lead == surface_str[2].nums[1]
        IN  /\ IdeCheckPassed(supported) <=> lead >= MIN_VERSIONS.jetbrains.ide_build
            /\ \A t \in TrailingBuilds :
                  IdeCheckPassed(is_version_supported(
                      [surface_str EXCEPT ![2] = Ver(<<lead>> \o t)]))
                    <=> IdeCheckPassed(supported)

\* C20 witness: a JetBrains surface whose build number starts with the
\* minimum prefix passed the IDE check
C20_Witness ==
    /\ spc # "start"
    /\ surface_str = <<Name("JetBrains-IU"), Ver(<<242, 1>>)>>
    /\ supported = Verdict(TRUE, NoReason)

\* the surface names a family of the floor table with an IDE version that
\* parses
JudgedAgainstFloor(s) ==
    /\ s # None
    /\ Len(s) >= 2
    /\ FloorFamilyOf(s) # "none"
    /\ s[2].nums # <<>>

\* C21: a surface of a family of the floor table is judged against that
\* family's own floors, Eclipse included: it is eligible iff neither its IDE
\* version nor its extension version is below the floor of its own family
\* (build-number regime for JetBrains products only)
C21_EachFamilyOwnFloors ==
    (spc # "start" /\ JudgedAgainstFloor(surface_str))
        => (supported.ok <=> ~BelowFloor(surface_str))

\* the part of C21 the code keeps: every family of the table but Eclipse
C21_OwnFloorsButEclipse ==
    (/\ spc # "start" /\ JudgedAgainstFloor(surface_str)
     /\ FloorFamilyOf(surface_str) # "eclipse")
        => (supported.ok <=> ~BelowFloor(surface_str))

\* C22: the classifier gives the raw surface string and its normalised form
\* the same eligible/ineligible verdict
C22_VerdictSameOnNormalForm ==
    spc \in {"normalized", "renormalized"}
        => is_version_supported(normalized).ok = supported.ok

\* the rows read that are in the window and of the excluded family
RowsExcluded ==
    {i \in 1..Len(ledger) : InEffectiveWindow(ledger[i]) /\ ExcludedClient(ledger[i])}

\* C23: an in-window row of the excluded family (neovim in any letter case)
\* is dropped before the eligibility classifier is asked: it has no record
\* and is in no unsupported tally, whatever its version segments and the
\* telemetry; of the other in-window rows the ineligible ones are tallied and
\* have no record, and an eligible one absent from the telemetry is Absent
C23_ExcludedFamilyDroppedFirst ==
    Classifying =>
        /\ \A i \in RowsExcluded : RecordsFor(ledger[i]) = {}
        /\ stats.users_unsupported_version = Cardinality(RowsUnsupported)
        /\ \A k \in DOMAIN stats.unsupported_version_breakdown :
              /\ lower(k) # Name("neovim")
              /\ stats.unsupported_version_breakdown[k]
                   = Cardinality({i \in RowsUnsupported :
                                     SurfaceType(ledger[i].LastSurfaceUsed) = k})
        /\ \A i \in RowsUnsupported : RecordsFor(ledger[i]) = {}
        /\ \A i \in JudgedRows :
              ~InTelemetry(ledger[i].Login) => AbsentFor(ledger[i]) # {}

\* C23 witness: an in-window neovim row that the classifier would reject
\* (one segment) was read for a user the telemetry does not know, dropped
\* without a record or a tally, and the next row was classified
C23_Witness ==
    /\ Classifying
    /\ Len(ledger) = 2
    /\ ledger[1].LastSurfaceUsed = <<Name("Neovim")>>
    /\ InEffectiveWindow(ledger[1])
    /\ ~is_version_supported(ledger[1].LastSurfaceUsed).ok
    /\ ~InTelemetry(ledger[1].Login)
    /\ stats.users_unsupported_version = 0
    /\ stats.users_active_in_window = 2
    /\ Len(all_discrepancies) = 1
    /\ all_discrepancies[1].Login = ledger[2].Login

\* C24: find_closest_timestamp returns a member of the timestamp set whose
\* absolute difference to the report timestamp is the least over the set
\* (over the members that parse), with that difference; on an empty set it
\* returns (None, False, None); within_tolerance is never true with a null
\* nearest timestamp
C24_NearestIsMinimalMember ==
    mpc = "done" =>
        /\ json_order = <<>> => match = Triple(None, FALSE, None)
        /\ match.within_tolerance => match.closest_ts # None
        /\ (ReportParses /\ AbsDiffs # {}) => match.closest_ts # None
        /\ match.closest_ts # None =>
              /\ ReportParses
              /\ \E i \in 1..Len(json_order) : json_order[i] = match.closest_ts[1]
              /\ ParsesAsDatetime(match.closest_ts[1])
              /\ Abs(Seconds(match.closest_ts[1]) - Seconds(report_ts[1])) = MinOf(AbsDiffs)
              /\ match.time_diff = Some(MinOf(AbsDiffs))

\* C24 witness: the nearer timestamp was visited first, a farther one after
\* it, and the scan returned the nearer one with its distance
C24_Witness ==
    /\ mpc = "done"
    /\ report_ts = Some(ReportBase)
    /\ json_order = <<Shifted(-7200), Shifted(86401)>>
    /\ match.closest_ts = Some(Shifted(-7200))
    /\ match.time_diff = Some(7200)

\* the telemetry timestamps of the record's user that are nearest to the
\* record's ledger timestamp
NearestTo(d) ==
    LET at == normalize_timestamp(d.LastActivityAt)[1]
        S == {t \in TimestampsOf(d.Login) : ParsesAsDatetime(t)}
    IN  {t \in S : \A u \in S : Abs(Seconds(t) - Seconds(at)) <= Abs(Seconds(u) - Seconds(at))}

StaleRecords ==
    {i \in 1..Len(all_discrepancies) : all_discrepancies[i].Status = "Timestamp Mismatch"}

\* C25: gaps are computed for Stale records only; the telemetry timestamp a
\* Stale record stores is the user's timestamp nearest to the ledger
\* timestamp, and the record's gap is the ledger timestamp minus that one
C25_GapFromNearestTimestamp ==
    pc \in {"summary", "done"} =>
        /\ Len(patterns.timestamp_gaps.gaps) <= Cardinality(StaleRecords)
        /\ \A i \in StaleRecords :
              LET d == all_discrepancies[i]
              IN  (ParsesAsDatetime(normalize_timestamp(d.LastActivityAt)[1])
                     /\ NearestTo(d) # {}) =>
                      /\ d.LatestExportActivity # None
                      /\ d.LatestExportActivity[1] \in NearestTo(d)
                      /\ \E k \in 1..Len(patterns.timestamp_gaps.gaps) :
                            \E t \in NearestTo(d) :
                                patterns.timestamp_gaps.gaps[k]
                                  = Seconds(d.LastActivityAt) - Seconds(t)

\* the part of C25 the code keeps: only Stale records contribute a gap
C25_GapsForStaleOnly ==
    pc \in {"summary", "done"} =>
        Len(patterns.timestamp_gaps.gaps) <= Cardinality(StaleRecords)

\* the state that refutes C25 with well-formed timestamps: the ledger
\* timestamp is 25 hours before the user's older telemetry timestamp, and
\* the record stores the newer one
C25_MostRecentStored ==
    /\ pc = "done"
    /\ Len(all_discrepancies) = 1
    /\ all_discrepancies[1].Status = "Timestamp Mismatch"
    /\ all_discrepancies[1].LastActivityAt = At(11, 9, 0, 0)
    /\ TimestampsOf(all_discrepancies[1].Login) = {StampA, StampB}
    /\ all_discrepancies[1].LatestExportActivity = Some(StampB)
    /\ patterns.timestamp_gaps.gaps = <<Seconds(At(11, 9, 0, 0)) - Seconds(StampB)>>

\* the canonical family of a record's surface: the first segment of its
\* normal form
CanonicalFamily(d) == normalize_surface_to_json_format(d.ReportSurface)[1]

\* the records of a status counted by canonical family
ByCanonicalFamily(status) ==
    LET recs == {i \in 1..Len(all_discrepancies) : all_discrepancies[i].Status = status}
    IN  [k \in {CanonicalFamily(all_discrepancies[i]) : i \in recs} |->
            Cardinality({i \in recs : CanonicalFamily(all_discrepancies[i]) = k})]

\* C26: the by-surface breakdowns count the records by the canonical family
\* of the row's surface, so surfaces with the same normal family share a
\* bucket
C26_BreakdownByCanonicalFamily ==
    Classifying =>
        /\ stats.missing_surface_breakdown = ByCanonicalFamily("Missing from JSON")
        /\ stats.timestamp_mismatch_surface_breakdown = ByCanonicalFamily("Timestamp Mismatch")

\* what the code does: the records are counted by SurfaceType, the raw first
\* segment (vscode for unknown/...copilot...)
C26_BreakdownByRawSegment ==
    Classifying =>
        \A k \in DOMAIN stats.missing_surface_breakdown :
            stats.missing_surface_breakdown[k]
              = Cardinality({i \in 1..Len(all_discrepancies) :
                               /\ all_discrepancies[i].Status = "Missing from JSON"
                               /\ SurfaceType(all_discrepancies[i].ReportSurface) = k})

\* C27: the telemetry is read to completion before the first ledger row is
\* classified: a step that classifies a row, or any later step of the run,
\* is taken after ingestion has ended, and from then on no step adds a
\* line, a row, a timestamp or an interaction count to the index
C27_IndexCompleteBeforeClassification ==
    [][/\ (ledger' # ledger \/ stats' # stats \/ all_discrepancies' # all_discrepancies)
            => pc = "classify"
       /\ pc # "ingest" => (pc' # "ingest" /\ UNCHANGED <<telemetry, indexVars>>)]_vars

\* C27 witness: two lines were read, then two rows classified against the
\* index they built
C27_Witness ==
    /\ pc = "done"
    /\ Len(telemetry) = 2
    /\ Len(ledger) = 2
    /\ CurrentIndex = parse_json_files(telemetry)
    /\ Len(all_discrepancies) = 2

\* C28: analyze_versions.is_supported gives every surface string the verdict
\* of is_version_supported, JetBrains build numbers included
C28_VersionsScriptSameVerdict ==
    spc = "versioned" => version_supported = supported.ok

\* the part of C28 the code keeps: the surfaces the main script does not
\* judge by build number
C28_SameVerdictOutsideBuildRegime ==
    (spc = "versioned" /\ ide_type(lower(surface_str[1])) # "jetbrains")
        => version_supported = supported.ok

\* the sum of the values of a dict
RECURSIVE SumOf(_)
SumOf(f) ==
    IF DOMAIN f = {} THEN 0
    ELSE LET k == CHOOSE x \in DOMAIN f : TRUE
         IN  f[k] + SumOf([x \in DOMAIN f \ {k} |-> f[x]])

AbsentRecords ==
    {i \in 1..Len(all_discrepancies) : all_discrepancies[i].Status = "Missing from JSON"}

\* C29: the counters agree with the list of records: missing_count is the
\* number of Absent records and the sum of each of its two breakdowns,
\* timestamp_mismatch_count the same for Stale records, the unsupported
\* tally is the sum of its breakdown, and the three together never exceed
\* the number of in-window rows
C29_CountersMatchRecords ==
    Classifying =>
        /\ stats.missing_count = Cardinality(AbsentRecords)
        /\ stats.missing_count = SumOf(stats.missing_surface_breakdown)
        /\ stats.missing_count = SumOf(stats.missing_extension_breakdown)
        /\ stats.timestamp_mismatch_count = Cardinality(StaleRecords)
        /\ stats.timestamp_mismatch_count = SumOf(stats.timestamp_mismatch_surface_breakdown)
        /\ stats.timestamp_mismatch_count = SumOf(stats.timestamp_mismatch_extension_breakdown)
        /\ stats.users_unsupported_version = SumOf(stats.unsupported_version_breakdown)
        /\ stats.missing_count + stats.timestamp_mismatch_count
             + stats.users_unsupported_version <= stats.users_active_in_window
        /\ Len(all_discrepancies) = stats.missing_count + stats.timestamp_mismatch_count

\* C29 witness: two Stale records of the same surface and extension version
\* were emitted, so a bucket of each breakdown holds two
C29_Witness ==
    /\ Classifying
    /\ Len(all_discrepancies) = 2
    /\ stats.timestamp_mismatch_count = 2
    /\ stats.timestamp_mismatch_surface_breakdown[Name("vscode")] = 2
    /\ stats.timestamp_mismatch_extension_breakdown[ChatKey(Ver(<<0, 28, 0>>))] = 2
    /\ stats.users_active_in_window = 2


\* ---- C30

\* the rows read so far that were active on the comparison date
ActiveRows == {i \in 1..Len(csv_rows) : ActiveOn(csv_rows[i].LastActivityAt, comparison_date)}

\* the active rows the loop takes to its last step: an IDE surface on a
\* supported version
ComparedRows ==
    {i \in ActiveRows : /\ is_ide_surface(csv_rows[i].LastSurfaceUsed)
                        /\ is_version_supported(csv_rows[i].LastSurfaceUsed).ok}

\* the compared rows whose login has no record of the comparison date
MissingRows == {i \in ComparedRows : csv_rows[i].Login \notin DOMAIN json_users}

\* the rows of a set of positions, in the order of the activity report
RECURSIVE RowsAt(_, _)
RowsAt(S, n) ==
    IF n = 0 THEN <<>>
    ELSE IF n \in S THEN Append(RowsAt(S, n - 1), csv_rows[n])
    ELSE RowsAt(S, n - 1)

\* C30: in analyze_copilot_data_v2, after any sequence of ledger rows, every
\* row active on the comparison date is counted in exactly one of
\* users_non_ide, users_unsupported_version, users_in_json and
\* users_missing_from_json, so that the four add up to users_active_on_date;
\* one 'Missing from JSON' record is emitted for each row counted in
\* users_missing_from_json and none for any other row; and the missing rate
\* of the summary never exceeds 100 percent
C30_ActiveRowsCountedOnce ==
    vpc \in {"compare", "done"} =>
        /\ v2_stats.total_csv_users = Len(csv_rows)
        /\ v2_stats.users_active_on_date = Cardinality(ActiveRows)
        /\ v2_stats.users_non_ide =
               Cardinality({i \in ActiveRows : ~is_ide_surface(csv_rows[i].LastSurfaceUsed)})
        /\ v2_stats.users_unsupported_version =
               Cardinality({i \in ActiveRows :
                               /\ is_ide_surface(csv_rows[i].LastSurfaceUsed)
                               /\ ~is_version_supported(csv_rows[i].LastSurfaceUsed).ok})
        /\ v2_stats.users_in_json = Cardinality(ComparedRows \ MissingRows)
        /\ v2_stats.users_missing_from_json = Cardinality(MissingRows)
        /\ v2_stats.users_non_ide + v2_stats.users_unsupported_version
             + v2_stats.users_in_json + v2_stats.users_missing_from_json
             = v2_stats.users_active_on_date
        /\ discrepancies =
               [k \in 1..Cardinality(MissingRows) |->
                   MissingFromJson(RowsAt(MissingRows, Len(csv_rows))[k])]
        /\ (vpc = "done" =>
              /\ v2_summary.ide_users = Cardinality(ComparedRows)
              /\ v2_stats.users_missing_from_json <= v2_summary.ide_users
              /\ v2_summary.missing_pct # None => v2_summary.missing_pct[1] <= 1000)

\* a finished comparison of two active rows, one found in the telemetry and
\* one missing from it: a missing rate of 50.0 percent
C30_Witness ==
    /\ vpc = "done"
    /\ v2_stats.users_active_on_date = 2
    /\ v2_stats.users_in_json = 1
    /\ v2_stats.users_missing_from_json = 1
    /\ Len(discrepancies) = 1
    /\ v2_summary.missing_pct = Some(500)

====
